---- MODULE Spec2Model ----
(***************************************************************************)
(* Model of src/src/index.mts: the chat queue and its single worker        *)
(* (processQueue), the per-job pipeline (processChat: filter gate, AI      *)
(* call, TTS call, viewer broadcast), the forwarder registry kept in       *)
(* data/forwarders.json, and the HTTP / feed handlers that enqueue turns   *)
(* and switch rooms.                                                       *)
(*                                                                         *)
(* Node runs every handler to completion on one thread.  The pipeline      *)
(* waits for the outside world at the axios.post of the AI call (line 364) *)
(* and in the ElevenLabs call (lines 406-412): at convert() (line 406) and *)
(* at every reader.read() of streamToBuffer (lines 412 and 439).           *)
(*                                                                         *)
(* The `await processChat(...)` of line 62 yields even when processChat    *)
(* has already returned (a suppressed turn, the return of line 344), and   *)
(* no handler awaits processQueue() (lines 518, 564, 705): the handler     *)
(* returns with the lock held, and the finally of lines 65-68 is a         *)
(* microtask.  Microtasks run when the callbacks queued with               *)
(* process.nextTick have run.  The feed client dispatches every packet it  *)
(* decoded with process.nextTick, and the requests that the HTTP server    *)
(* parsed from one chunk of one connection (pipelining) reach their        *)
(* handlers from nextTick callbacks too (the 'end' of each body): the      *)
(* handlers of what arrived together run one after the other BEFORE the    *)
(* finally that the first of them left behind.  In that window the lock    *)
(* is held although no processChat is suspended (variable settled), turns  *)
(* pile up in the queue, and a room switch or a forwarder selection takes  *)
(* effect before the next turn starts.  What arrives from another source   *)
(* (another socket, a timer, the result of an AI or TTS call) is           *)
(* dispatched from the event loop, after the microtasks are drained.       *)
(*                                                                         *)
(* One action of this module is therefore one handler, or one resumption   *)
(* of processChat.  A resumption is itself a microtask and runs together   *)
(* with the microtasks that follow it.  A handler that leaves a finally    *)
(* behind ends before it: the finally is an action of its own              *)
(* (FinallyRuns), which the other handlers of the tick may precede.        *)
(*                                                                         *)
(* Strings that the code inspects character by character (usernames,       *)
(* messages and the emotion of a reply) are sequences of UTF-16 code       *)
(* units: a printable ASCII character is a one-character string, tab,      *)
(* line feed, form feed and carriage return are "\t", "\n", "\f", "\r",    *)
(* and any other code unit is written by its name ("U+00A0"; the grave     *)
(* accent, which a TLA+ string cannot hold, is "U+0060").  Strings the     *)
(* code only passes around (reply texts, URLs, room ids) are TLA+ strings. *)
(***************************************************************************)
EXTENDS Integers, Sequences, FiniteSets, TLC

VARIABLES
    chatQueue,              \* line 36: pending turns (each with its enqueue ordinal `no`)
    isProcessing,           \* line 38: the lock
    chatHistory,            \* line 41: last turns, context of the AI call
    alreadyExistChats,      \* line 33: Set of identifiers, in insertion order
    currentLiveChatSocket,  \* line 45: index into sockets, 0 for null
    currentMintID,          \* line 46: room id or Null
    forwarders,             \* content of data/forwarders.json
    sockets,                \* the socket.io clients created and not yet forgotten (see newChat)
    pipelines,              \* processChat executions suspended at an await
    settled,                \* line 62: "no", or how the processChat that processQueue awaits has ended while the finally of lines 65-68 has not run yet
    tick,                   \* while settled is not "no", the source whose handlers are being dispatched: a feed socket, or 0 for the HTTP connection; else 0
    out,                    \* what the last handler run did, in order (events)
    enqCount,               \* history: number of turns enqueued so far
    startedNos,             \* history: ordinals handed to processChat, in order
    broadcastNos,           \* history: ordinals whose fan-out ran, in order
    droppedNos,             \* history: ordinals removed from the queue by a room switch
    acceptedSinceSwitch,    \* history: clean (username, message) pairs of the model's inputs accepted since the last room switch
    evictedSinceSwitch      \* history: identifiers evicted from alreadyExistChats since the last room switch

vars == <<chatQueue, isProcessing, chatHistory, alreadyExistChats,
          currentLiveChatSocket, currentMintID, forwarders, sockets, pipelines,
          settled, tick, out, enqCount, startedNos, broadcastNos, droppedNos,
          acceptedSinceSwitch, evictedSinceSwitch>>

(***************************************************************************)
(* Bounds of the model.                                                    *)
(***************************************************************************)
MaxEnq == 3
MaxForwarders == 3
MaxGateEnq == 2
MaxSockets == 1
MaxSessionSockets == 2

(***************************************************************************)
(* Program constants.                                                      *)
(***************************************************************************)
HistoryCap == 100
SeenCap == 1000
MinMessageLen == 2
MaxMessageLen == 200
SliceLen == 6

Null == "<null>"
Undefined == "<undefined>"

FallbackError == "There was an error processing that request."
FallbackNoResponse == "Sorry, I couldn't generate a response."

negativeKeywords == << <<"s","c","a","m">>, <<"@">>, <<"f","a","k","e">> >>

(***************************************************************************)
(* Character classes and string helpers.                                   *)
(***************************************************************************)
LowerLetters == <<"a","b","c","d","e","f","g","h","i","j","k","l","m",
                  "n","o","p","q","r","s","t","u","v","w","x","y","z">>
UpperLetters == <<"A","B","C","D","E","F","G","H","I","J","K","L","M",
                  "N","O","P","Q","R","S","T","U","V","W","X","Y","Z">>
Digits == <<"0","1","2","3","4","5","6","7","8","9">>

Range(s) == {s[i] : i \in 1..Len(s)}

\* \w of the regular expression at line 329
WordChars == Range(LowerLetters) \cup Range(UpperLetters) \cup Range(Digits) \cup {"_"}

\* what String.prototype.trim removes: the WhiteSpace and LineTerminator
\* code units of ECMAScript
WhiteSpace ==
    {"\t", "\n", "U+000B", "\f", "\r", " ", "U+00A0", "U+1680",
     "U+2000", "U+2001", "U+2002", "U+2003", "U+2004", "U+2005", "U+2006",
     "U+2007", "U+2008", "U+2009", "U+200A", "U+2028", "U+2029", "U+202F",
     "U+205F", "U+3000", "U+FEFF"}

SetMin(S) == CHOOSE x \in S : \A y \in S : x <= y
SetMax(S) == CHOOSE x \in S : \A y \in S : y <= x

(***************************************************************************)
(* String.prototype.toLowerCase (lines 330 and 400): the lowering of the   *)
(* Unicode Character Database on UTF-16 code units.  A code unit that is   *)
(* no printable ASCII character is written by its name, "U+00C1".  The     *)
(* tables are those of Unicode 17.0: simple lower-case mappings and the    *)
(* properties Cased and Case_Ignorable.                                    *)
(***************************************************************************)
HexDigits == <<"0","1","2","3","4","5","6","7","8","9","A","B","C","D","E","F">>

\* the name of code unit n
CodeUnit(n) ==
    "U+" \o HexDigits[(n \div 4096) + 1] \o HexDigits[((n \div 256) % 16) + 1]
         \o HexDigits[((n \div 16) % 16) + 1] \o HexDigits[(n % 16) + 1]

\* the two code units of a code point above U+FFFF
HighSurrogate(cp) == CodeUnit(\hD800 + ((cp - 65536) \div 1024))
LowSurrogate(cp) == CodeUnit(\hDC00 + ((cp - 65536) % 1024))

\* <<first, last, step, delta>>: the code points first, first + step, ...,
\* last lower to themselves + delta
Steps(r) == {n \in r[1]..r[2] : (n - r[1]) % r[3] = 0}

\* the simple lower-case mappings of the code points U+0080 to U+FFFF whose
\* lower case is no ASCII character
LowerRules ==
    {
      <<\h00C0, \h00D6, 1, 32>>, <<\h00D8, \h00DE, 1, 32>>,
      <<\h0100, \h012E, 2, 1>>, <<\h0132, \h0136, 2, 1>>,
      <<\h0139, \h0147, 2, 1>>, <<\h014A, \h0176, 2, 1>>,
      <<\h0178, \h0178, 1, -121>>, <<\h0179, \h017D, 2, 1>>,
      <<\h0181, \h0181, 1, 210>>, <<\h0182, \h0184, 2, 1>>,
      <<\h0186, \h0186, 1, 206>>, <<\h0187, \h0187, 1, 1>>,
      <<\h0189, \h018A, 1, 205>>, <<\h018B, \h018B, 1, 1>>,
      <<\h018E, \h018E, 1, 79>>, <<\h018F, \h018F, 1, 202>>,
      <<\h0190, \h0190, 1, 203>>, <<\h0191, \h0191, 1, 1>>,
      <<\h0193, \h0193, 1, 205>>, <<\h0194, \h0194, 1, 207>>,
      <<\h0196, \h0196, 1, 211>>, <<\h0197, \h0197, 1, 209>>,
      <<\h0198, \h0198, 1, 1>>, <<\h019C, \h019C, 1, 211>>,
      <<\h019D, \h019D, 1, 213>>, <<\h019F, \h019F, 1, 214>>,
      <<\h01A0, \h01A4, 2, 1>>, <<\h01A6, \h01A6, 1, 218>>,
      <<\h01A7, \h01A7, 1, 1>>, <<\h01A9, \h01A9, 1, 218>>,
      <<\h01AC, \h01AC, 1, 1>>, <<\h01AE, \h01AE, 1, 218>>,
      <<\h01AF, \h01AF, 1, 1>>, <<\h01B1, \h01B2, 1, 217>>,
      <<\h01B3, \h01B5, 2, 1>>, <<\h01B7, \h01B7, 1, 219>>,
      <<\h01B8, \h01B8, 1, 1>>, <<\h01BC, \h01BC, 1, 1>>,
      <<\h01C4, \h01C4, 1, 2>>, <<\h01C5, \h01C5, 1, 1>>,
      <<\h01C7, \h01C7, 1, 2>>, <<\h01C8, \h01C8, 1, 1>>,
      <<\h01CA, \h01CA, 1, 2>>, <<\h01CB, \h01DB, 2, 1>>,
      <<\h01DE, \h01EE, 2, 1>>, <<\h01F1, \h01F1, 1, 2>>,
      <<\h01F2, \h01F4, 2, 1>>, <<\h01F6, \h01F6, 1, -97>>,
      <<\h01F7, \h01F7, 1, -56>>, <<\h01F8, \h021E, 2, 1>>,
      <<\h0220, \h0220, 1, -130>>, <<\h0222, \h0232, 2, 1>>,
      <<\h023A, \h023A, 1, 10795>>, <<\h023B, \h023B, 1, 1>>,
      <<\h023D, \h023D, 1, -163>>, <<\h023E, \h023E, 1, 10792>>,
      <<\h0241, \h0241, 1, 1>>, <<\h0243, \h0243, 1, -195>>,
      <<\h0244, \h0244, 1, 69>>, <<\h0245, \h0245, 1, 71>>,
      <<\h0246, \h024E, 2, 1>>, <<\h0370, \h0372, 2, 1>>,
      <<\h0376, \h0376, 1, 1>>, <<\h037F, \h037F, 1, 116>>,
      <<\h0386, \h0386, 1, 38>>, <<\h0388, \h038A, 1, 37>>,
      <<\h038C, \h038C, 1, 64>>, <<\h038E, \h038F, 1, 63>>,
      <<\h0391, \h03A1, 1, 32>>, <<\h03A3, \h03AB, 1, 32>>,
      <<\h03CF, \h03CF, 1, 8>>, <<\h03D8, \h03EE, 2, 1>>,
      <<\h03F4, \h03F4, 1, -60>>, <<\h03F7, \h03F7, 1, 1>>,
      <<\h03F9, \h03F9, 1, -7>>, <<\h03FA, \h03FA, 1, 1>>,
      <<\h03FD, \h03FF, 1, -130>>, <<\h0400, \h040F, 1, 80>>,
      <<\h0410, \h042F, 1, 32>>, <<\h0460, \h0480, 2, 1>>,
      <<\h048A, \h04BE, 2, 1>>, <<\h04C0, \h04C0, 1, 15>>,
      <<\h04C1, \h04CD, 2, 1>>, <<\h04D0, \h052E, 2, 1>>,
      <<\h0531, \h0556, 1, 48>>, <<\h10A0, \h10C5, 1, 7264>>,
      <<\h10C7, \h10C7, 1, 7264>>, <<\h10CD, \h10CD, 1, 7264>>,
      <<\h13A0, \h13EF, 1, 38864>>, <<\h13F0, \h13F5, 1, 8>>,
      <<\h1C89, \h1C89, 1, 1>>, <<\h1C90, \h1CBA, 1, -3008>>,
      <<\h1CBD, \h1CBF, 1, -3008>>, <<\h1E00, \h1E94, 2, 1>>,
      <<\h1E9E, \h1E9E, 1, -7615>>, <<\h1EA0, \h1EFE, 2, 1>>,
      <<\h1F08, \h1F0F, 1, -8>>, <<\h1F18, \h1F1D, 1, -8>>,
      <<\h1F28, \h1F2F, 1, -8>>, <<\h1F38, \h1F3F, 1, -8>>,
      <<\h1F48, \h1F4D, 1, -8>>, <<\h1F59, \h1F5F, 2, -8>>,
      <<\h1F68, \h1F6F, 1, -8>>, <<\h1F88, \h1F8F, 1, -8>>,
      <<\h1F98, \h1F9F, 1, -8>>, <<\h1FA8, \h1FAF, 1, -8>>,
      <<\h1FB8, \h1FB9, 1, -8>>, <<\h1FBA, \h1FBB, 1, -74>>,
      <<\h1FBC, \h1FBC, 1, -9>>, <<\h1FC8, \h1FCB, 1, -86>>,
      <<\h1FCC, \h1FCC, 1, -9>>, <<\h1FD8, \h1FD9, 1, -8>>,
      <<\h1FDA, \h1FDB, 1, -100>>, <<\h1FE8, \h1FE9, 1, -8>>,
      <<\h1FEA, \h1FEB, 1, -112>>, <<\h1FEC, \h1FEC, 1, -7>>,
      <<\h1FF8, \h1FF9, 1, -128>>, <<\h1FFA, \h1FFB, 1, -126>>,
      <<\h1FFC, \h1FFC, 1, -9>>, <<\h2126, \h2126, 1, -7517>>,
      <<\h212B, \h212B, 1, -8262>>, <<\h2132, \h2132, 1, 28>>,
      <<\h2160, \h216F, 1, 16>>, <<\h2183, \h2183, 1, 1>>,
      <<\h24B6, \h24CF, 1, 26>>, <<\h2C00, \h2C2F, 1, 48>>,
      <<\h2C60, \h2C60, 1, 1>>, <<\h2C62, \h2C62, 1, -10743>>,
      <<\h2C63, \h2C63, 1, -3814>>, <<\h2C64, \h2C64, 1, -10727>>,
      <<\h2C67, \h2C6B, 2, 1>>, <<\h2C6D, \h2C6D, 1, -10780>>,
      <<\h2C6E, \h2C6E, 1, -10749>>, <<\h2C6F, \h2C6F, 1, -10783>>,
      <<\h2C70, \h2C70, 1, -10782>>, <<\h2C72, \h2C72, 1, 1>>,
      <<\h2C75, \h2C75, 1, 1>>, <<\h2C7E, \h2C7F, 1, -10815>>,
      <<\h2C80, \h2CE2, 2, 1>>, <<\h2CEB, \h2CED, 2, 1>>,
      <<\h2CF2, \h2CF2, 1, 1>>, <<\hA640, \hA66C, 2, 1>>,
      <<\hA680, \hA69A, 2, 1>>, <<\hA722, \hA72E, 2, 1>>,
      <<\hA732, \hA76E, 2, 1>>, <<\hA779, \hA77B, 2, 1>>,
      <<\hA77D, \hA77D, 1, -35332>>, <<\hA77E, \hA786, 2, 1>>,
      <<\hA78B, \hA78B, 1, 1>>, <<\hA78D, \hA78D, 1, -42280>>,
      <<\hA790, \hA792, 2, 1>>, <<\hA796, \hA7A8, 2, 1>>,
      <<\hA7AA, \hA7AA, 1, -42308>>, <<\hA7AB, \hA7AB, 1, -42319>>,
      <<\hA7AC, \hA7AC, 1, -42315>>, <<\hA7AD, \hA7AD, 1, -42305>>,
      <<\hA7AE, \hA7AE, 1, -42308>>, <<\hA7B0, \hA7B0, 1, -42258>>,
      <<\hA7B1, \hA7B1, 1, -42282>>, <<\hA7B2, \hA7B2, 1, -42261>>,
      <<\hA7B3, \hA7B3, 1, 928>>, <<\hA7B4, \hA7C2, 2, 1>>,
      <<\hA7C4, \hA7C4, 1, -48>>, <<\hA7C5, \hA7C5, 1, -42307>>,
      <<\hA7C6, \hA7C6, 1, -35384>>, <<\hA7C7, \hA7C9, 2, 1>>,
      <<\hA7CB, \hA7CB, 1, -42343>>, <<\hA7CC, \hA7DA, 2, 1>>,
      <<\hA7DC, \hA7DC, 1, -42561>>, <<\hA7F5, \hA7F5, 1, 1>>,
      <<\hFF21, \hFF3A, 1, 32>> }

\* the simple lower-case mappings above U+FFFF
AstralLowerRules ==
    {
      <<\h10400, \h10427, 1, 40>>, <<\h104B0, \h104D3, 1, 40>>,
      <<\h10570, \h1057A, 1, 39>>, <<\h1057C, \h1058A, 1, 39>>,
      <<\h1058C, \h10592, 1, 39>>, <<\h10594, \h10595, 1, 39>>,
      <<\h10C80, \h10CB2, 1, 64>>, <<\h10D50, \h10D65, 1, 32>>,
      <<\h118A0, \h118BF, 1, 32>>, <<\h16E40, \h16E5F, 1, 32>>,
      <<\h16EA0, \h16EB8, 1, 27>>, <<\h1E900, \h1E921, 1, 34>> }

\* ranges <<first, last>> of the code points from U+0080 that are
\* Case_Ignorable (ICU and V8 test this property first)
CaseIgnorableRanges ==
    {
      <<\h00A8, \h00A8>>, <<\h00AD, \h00AD>>, <<\h00AF, \h00AF>>, <<\h00B4, \h00B4>>,
      <<\h00B7, \h00B8>>, <<\h02B0, \h036F>>, <<\h0374, \h0375>>, <<\h037A, \h037A>>,
      <<\h0384, \h0385>>, <<\h0387, \h0387>>, <<\h0483, \h0489>>, <<\h0559, \h0559>>,
      <<\h055F, \h055F>>, <<\h0591, \h05BD>>, <<\h05BF, \h05BF>>, <<\h05C1, \h05C2>>,
      <<\h05C4, \h05C5>>, <<\h05C7, \h05C7>>, <<\h05F4, \h05F4>>, <<\h0600, \h0605>>,
      <<\h0610, \h061A>>, <<\h061C, \h061C>>, <<\h0640, \h0640>>, <<\h064B, \h065F>>,
      <<\h0670, \h0670>>, <<\h06D6, \h06DD>>, <<\h06DF, \h06E8>>, <<\h06EA, \h06ED>>,
      <<\h070F, \h070F>>, <<\h0711, \h0711>>, <<\h0730, \h074A>>, <<\h07A6, \h07B0>>,
      <<\h07EB, \h07F5>>, <<\h07FA, \h07FA>>, <<\h07FD, \h07FD>>, <<\h0816, \h082D>>,
      <<\h0859, \h085B>>, <<\h0888, \h0888>>, <<\h0890, \h0891>>, <<\h0897, \h089F>>,
      <<\h08C9, \h0902>>, <<\h093A, \h093A>>, <<\h093C, \h093C>>, <<\h0941, \h0948>>,
      <<\h094D, \h094D>>, <<\h0951, \h0957>>, <<\h0962, \h0963>>, <<\h0971, \h0971>>,
      <<\h0981, \h0981>>, <<\h09BC, \h09BC>>, <<\h09C1, \h09C4>>, <<\h09CD, \h09CD>>,
      <<\h09E2, \h09E3>>, <<\h09FE, \h09FE>>, <<\h0A01, \h0A02>>, <<\h0A3C, \h0A3C>>,
      <<\h0A41, \h0A42>>, <<\h0A47, \h0A48>>, <<\h0A4B, \h0A4D>>, <<\h0A51, \h0A51>>,
      <<\h0A70, \h0A71>>, <<\h0A75, \h0A75>>, <<\h0A81, \h0A82>>, <<\h0ABC, \h0ABC>>,
      <<\h0AC1, \h0AC5>>, <<\h0AC7, \h0AC8>>, <<\h0ACD, \h0ACD>>, <<\h0AE2, \h0AE3>>,
      <<\h0AFA, \h0AFF>>, <<\h0B01, \h0B01>>, <<\h0B3C, \h0B3C>>, <<\h0B3F, \h0B3F>>,
      <<\h0B41, \h0B44>>, <<\h0B4D, \h0B4D>>, <<\h0B55, \h0B56>>, <<\h0B62, \h0B63>>,
      <<\h0B82, \h0B82>>, <<\h0BC0, \h0BC0>>, <<\h0BCD, \h0BCD>>, <<\h0C00, \h0C00>>,
      <<\h0C04, \h0C04>>, <<\h0C3C, \h0C3C>>, <<\h0C3E, \h0C40>>, <<\h0C46, \h0C48>>,
      <<\h0C4A, \h0C4D>>, <<\h0C55, \h0C56>>, <<\h0C62, \h0C63>>, <<\h0C81, \h0C81>>,
      <<\h0CBC, \h0CBC>>, <<\h0CBF, \h0CBF>>, <<\h0CC6, \h0CC6>>, <<\h0CCC, \h0CCD>>,
      <<\h0CE2, \h0CE3>>, <<\h0D00, \h0D01>>, <<\h0D3B, \h0D3C>>, <<\h0D41, \h0D44>>,
      <<\h0D4D, \h0D4D>>, <<\h0D62, \h0D63>>, <<\h0D81, \h0D81>>, <<\h0DCA, \h0DCA>>,
      <<\h0DD2, \h0DD4>>, <<\h0DD6, \h0DD6>>, <<\h0E31, \h0E31>>, <<\h0E34, \h0E3A>>,
      <<\h0E46, \h0E4E>>, <<\h0EB1, \h0EB1>>, <<\h0EB4, \h0EBC>>, <<\h0EC6, \h0EC6>>,
      <<\h0EC8, \h0ECE>>, <<\h0F18, \h0F19>>, <<\h0F35, \h0F35>>, <<\h0F37, \h0F37>>,
      <<\h0F39, \h0F39>>, <<\h0F71, \h0F7E>>, <<\h0F80, \h0F84>>, <<\h0F86, \h0F87>>,
      <<\h0F8D, \h0F97>>, <<\h0F99, \h0FBC>>, <<\h0FC6, \h0FC6>>, <<\h102D, \h1030>>,
      <<\h1032, \h1037>>, <<\h1039, \h103A>>, <<\h103D, \h103E>>, <<\h1058, \h1059>>,
      <<\h105E, \h1060>>, <<\h1071, \h1074>>, <<\h1082, \h1082>>, <<\h1085, \h1086>>,
      <<\h108D, \h108D>>, <<\h109D, \h109D>>, <<\h10FC, \h10FC>>, <<\h135D, \h135F>>,
      <<\h1712, \h1714>>, <<\h1732, \h1733>>, <<\h1752, \h1753>>, <<\h1772, \h1773>>,
      <<\h17B4, \h17B5>>, <<\h17B7, \h17BD>>, <<\h17C6, \h17C6>>, <<\h17C9, \h17D3>>,
      <<\h17D7, \h17D7>>, <<\h17DD, \h17DD>>, <<\h180B, \h180F>>, <<\h1843, \h1843>>,
      <<\h1885, \h1886>>, <<\h18A9, \h18A9>>, <<\h1920, \h1922>>, <<\h1927, \h1928>>,
      <<\h1932, \h1932>>, <<\h1939, \h193B>>, <<\h1A17, \h1A18>>, <<\h1A1B, \h1A1B>>,
      <<\h1A56, \h1A56>>, <<\h1A58, \h1A5E>>, <<\h1A60, \h1A60>>, <<\h1A62, \h1A62>>,
      <<\h1A65, \h1A6C>>, <<\h1A73, \h1A7C>>, <<\h1A7F, \h1A7F>>, <<\h1AA7, \h1AA7>>,
      <<\h1AB0, \h1ADD>>, <<\h1AE0, \h1AEB>>, <<\h1B00, \h1B03>>, <<\h1B34, \h1B34>>,
      <<\h1B36, \h1B3A>>, <<\h1B3C, \h1B3C>>, <<\h1B42, \h1B42>>, <<\h1B6B, \h1B73>>,
      <<\h1B80, \h1B81>>, <<\h1BA2, \h1BA5>>, <<\h1BA8, \h1BA9>>, <<\h1BAB, \h1BAD>>,
      <<\h1BE6, \h1BE6>>, <<\h1BE8, \h1BE9>>, <<\h1BED, \h1BED>>, <<\h1BEF, \h1BF1>>,
      <<\h1C2C, \h1C33>>, <<\h1C36, \h1C37>>, <<\h1C78, \h1C7D>>, <<\h1CD0, \h1CD2>>,
      <<\h1CD4, \h1CE0>>, <<\h1CE2, \h1CE8>>, <<\h1CED, \h1CED>>, <<\h1CF4, \h1CF4>>,
      <<\h1CF8, \h1CF9>>, <<\h1D2C, \h1D6A>>, <<\h1D78, \h1D78>>, <<\h1D9B, \h1DFF>>,
      <<\h1FBD, \h1FBD>>, <<\h1FBF, \h1FC1>>, <<\h1FCD, \h1FCF>>, <<\h1FDD, \h1FDF>>,
      <<\h1FED, \h1FEF>>, <<\h1FFD, \h1FFE>>, <<\h200B, \h200F>>, <<\h2018, \h2019>>,
      <<\h2024, \h2024>>, <<\h2027, \h2027>>, <<\h202A, \h202E>>, <<\h2060, \h2064>>,
      <<\h2066, \h206F>>, <<\h2071, \h2071>>, <<\h207F, \h207F>>, <<\h2090, \h209C>>,
      <<\h20D0, \h20F0>>, <<\h2C7C, \h2C7D>>, <<\h2CEF, \h2CF1>>, <<\h2D6F, \h2D6F>>,
      <<\h2D7F, \h2D7F>>, <<\h2DE0, \h2DFF>>, <<\h2E2F, \h2E2F>>, <<\h3005, \h3005>>,
      <<\h302A, \h302D>>, <<\h3031, \h3035>>, <<\h303B, \h303B>>, <<\h3099, \h309E>>,
      <<\h30FC, \h30FE>>, <<\hA015, \hA015>>, <<\hA4F8, \hA4FD>>, <<\hA60C, \hA60C>>,
      <<\hA66F, \hA672>>, <<\hA674, \hA67D>>, <<\hA67F, \hA67F>>, <<\hA69C, \hA69F>>,
      <<\hA6F0, \hA6F1>>, <<\hA700, \hA721>>, <<\hA770, \hA770>>, <<\hA788, \hA78A>>,
      <<\hA7F1, \hA7F4>>, <<\hA7F8, \hA7F9>>, <<\hA802, \hA802>>, <<\hA806, \hA806>>,
      <<\hA80B, \hA80B>>, <<\hA825, \hA826>>, <<\hA82C, \hA82C>>, <<\hA8C4, \hA8C5>>,
      <<\hA8E0, \hA8F1>>, <<\hA8FF, \hA8FF>>, <<\hA926, \hA92D>>, <<\hA947, \hA951>>,
      <<\hA980, \hA982>>, <<\hA9B3, \hA9B3>>, <<\hA9B6, \hA9B9>>, <<\hA9BC, \hA9BD>>,
      <<\hA9CF, \hA9CF>>, <<\hA9E5, \hA9E6>>, <<\hAA29, \hAA2E>>, <<\hAA31, \hAA32>>,
      <<\hAA35, \hAA36>>, <<\hAA43, \hAA43>>, <<\hAA4C, \hAA4C>>, <<\hAA70, \hAA70>>,
      <<\hAA7C, \hAA7C>>, <<\hAAB0, \hAAB0>>, <<\hAAB2, \hAAB4>>, <<\hAAB7, \hAAB8>>,
      <<\hAABE, \hAABF>>, <<\hAAC1, \hAAC1>>, <<\hAADD, \hAADD>>, <<\hAAEC, \hAAED>>,
      <<\hAAF3, \hAAF4>>, <<\hAAF6, \hAAF6>>, <<\hAB5B, \hAB5F>>, <<\hAB69, \hAB6B>>,
      <<\hABE5, \hABE5>>, <<\hABE8, \hABE8>>, <<\hABED, \hABED>>, <<\hFB1E, \hFB1E>>,
      <<\hFBB2, \hFBC2>>, <<\hFE00, \hFE0F>>, <<\hFE13, \hFE13>>, <<\hFE20, \hFE2F>>,
      <<\hFE52, \hFE52>>, <<\hFE55, \hFE55>>, <<\hFEFF, \hFEFF>>, <<\hFF07, \hFF07>>,
      <<\hFF0E, \hFF0E>>, <<\hFF1A, \hFF1A>>, <<\hFF3E, \hFF3E>>, <<\hFF40, \hFF40>>,
      <<\hFF70, \hFF70>>, <<\hFF9E, \hFF9F>>, <<\hFFE3, \hFFE3>>, <<\hFFF9, \hFFFB>>,
      <<\h101FD, \h101FD>>, <<\h102E0, \h102E0>>, <<\h10376, \h1037A>>, <<\h10780, \h10785>>,
      <<\h10787, \h107B0>>, <<\h107B2, \h107BA>>, <<\h10A01, \h10A03>>, <<\h10A05, \h10A06>>,
      <<\h10A0C, \h10A0F>>, <<\h10A38, \h10A3A>>, <<\h10A3F, \h10A3F>>, <<\h10AE5, \h10AE6>>,
      <<\h10D24, \h10D27>>, <<\h10D4E, \h10D4E>>, <<\h10D69, \h10D6D>>, <<\h10D6F, \h10D6F>>,
      <<\h10EAB, \h10EAC>>, <<\h10EC5, \h10EC5>>, <<\h10EFA, \h10EFF>>, <<\h10F46, \h10F50>>,
      <<\h10F82, \h10F85>>, <<\h11001, \h11001>>, <<\h11038, \h11046>>, <<\h11070, \h11070>>,
      <<\h11073, \h11074>>, <<\h1107F, \h11081>>, <<\h110B3, \h110B6>>, <<\h110B9, \h110BA>>,
      <<\h110BD, \h110BD>>, <<\h110C2, \h110C2>>, <<\h110CD, \h110CD>>, <<\h11100, \h11102>>,
      <<\h11127, \h1112B>>, <<\h1112D, \h11134>>, <<\h11173, \h11173>>, <<\h11180, \h11181>>,
      <<\h111B6, \h111BE>>, <<\h111C9, \h111CC>>, <<\h111CF, \h111CF>>, <<\h1122F, \h11231>>,
      <<\h11234, \h11234>>, <<\h11236, \h11237>>, <<\h1123E, \h1123E>>, <<\h11241, \h11241>>,
      <<\h112DF, \h112DF>>, <<\h112E3, \h112EA>>, <<\h11300, \h11301>>, <<\h1133B, \h1133C>>,
      <<\h11340, \h11340>>, <<\h11366, \h1136C>>, <<\h11370, \h11374>>, <<\h113BB, \h113C0>>,
      <<\h113CE, \h113CE>>, <<\h113D0, \h113D0>>, <<\h113D2, \h113D2>>, <<\h113E1, \h113E2>>,
      <<\h11438, \h1143F>>, <<\h11442, \h11444>>, <<\h11446, \h11446>>, <<\h1145E, \h1145E>>,
      <<\h114B3, \h114B8>>, <<\h114BA, \h114BA>>, <<\h114BF, \h114C0>>, <<\h114C2, \h114C3>>,
      <<\h115B2, \h115B5>>, <<\h115BC, \h115BD>>, <<\h115BF, \h115C0>>, <<\h115DC, \h115DD>>,
      <<\h11633, \h1163A>>, <<\h1163D, \h1163D>>, <<\h1163F, \h11640>>, <<\h116AB, \h116AB>>,
      <<\h116AD, \h116AD>>, <<\h116B0, \h116B5>>, <<\h116B7, \h116B7>>, <<\h1171D, \h1171D>>,
      <<\h1171F, \h1171F>>, <<\h11722, \h11725>>, <<\h11727, \h1172B>>, <<\h1182F, \h11837>>,
      <<\h11839, \h1183A>>, <<\h1193B, \h1193C>>, <<\h1193E, \h1193E>>, <<\h11943, \h11943>>,
      <<\h119D4, \h119D7>>, <<\h119DA, \h119DB>>, <<\h119E0, \h119E0>>, <<\h11A01, \h11A0A>>,
      <<\h11A33, \h11A38>>, <<\h11A3B, \h11A3E>>, <<\h11A47, \h11A47>>, <<\h11A51, \h11A56>>,
      <<\h11A59, \h11A5B>>, <<\h11A8A, \h11A96>>, <<\h11A98, \h11A99>>, <<\h11B60, \h11B60>>,
      <<\h11B62, \h11B64>>, <<\h11B66, \h11B66>>, <<\h11C30, \h11C36>>, <<\h11C38, \h11C3D>>,
      <<\h11C3F, \h11C3F>>, <<\h11C92, \h11CA7>>, <<\h11CAA, \h11CB0>>, <<\h11CB2, \h11CB3>>,
      <<\h11CB5, \h11CB6>>, <<\h11D31, \h11D36>>, <<\h11D3A, \h11D3A>>, <<\h11D3C, \h11D3D>>,
      <<\h11D3F, \h11D45>>, <<\h11D47, \h11D47>>, <<\h11D90, \h11D91>>, <<\h11D95, \h11D95>>,
      <<\h11D97, \h11D97>>, <<\h11DD9, \h11DD9>>, <<\h11EF3, \h11EF4>>, <<\h11F00, \h11F01>>,
      <<\h11F36, \h11F3A>>, <<\h11F40, \h11F40>>, <<\h11F42, \h11F42>>, <<\h11F5A, \h11F5A>>,
      <<\h13430, \h13440>>, <<\h13447, \h13455>>, <<\h1611E, \h16129>>, <<\h1612D, \h1612F>>,
      <<\h16AF0, \h16AF4>>, <<\h16B30, \h16B36>>, <<\h16B40, \h16B43>>, <<\h16D40, \h16D42>>,
      <<\h16D6B, \h16D6C>>, <<\h16F4F, \h16F4F>>, <<\h16F8F, \h16F9F>>, <<\h16FE0, \h16FE1>>,
      <<\h16FE3, \h16FE4>>, <<\h16FF2, \h16FF3>>, <<\h1AFF0, \h1AFF3>>, <<\h1AFF5, \h1AFFB>>,
      <<\h1AFFD, \h1AFFE>>, <<\h1BC9D, \h1BC9E>>, <<\h1BCA0, \h1BCA3>>, <<\h1CF00, \h1CF2D>>,
      <<\h1CF30, \h1CF46>>, <<\h1D167, \h1D169>>, <<\h1D173, \h1D182>>, <<\h1D185, \h1D18B>>,
      <<\h1D1AA, \h1D1AD>>, <<\h1D242, \h1D244>>, <<\h1DA00, \h1DA36>>, <<\h1DA3B, \h1DA6C>>,
      <<\h1DA75, \h1DA75>>, <<\h1DA84, \h1DA84>>, <<\h1DA9B, \h1DA9F>>, <<\h1DAA1, \h1DAAF>>,
      <<\h1E000, \h1E006>>, <<\h1E008, \h1E018>>, <<\h1E01B, \h1E021>>, <<\h1E023, \h1E024>>,
      <<\h1E026, \h1E02A>>, <<\h1E030, \h1E06D>>, <<\h1E08F, \h1E08F>>, <<\h1E130, \h1E13D>>,
      <<\h1E2AE, \h1E2AE>>, <<\h1E2EC, \h1E2EF>>, <<\h1E4EB, \h1E4EF>>, <<\h1E5EE, \h1E5EF>>,
      <<\h1E6E3, \h1E6E3>>, <<\h1E6E6, \h1E6E6>>, <<\h1E6EE, \h1E6EF>>, <<\h1E6F5, \h1E6F5>>,
      <<\h1E6FF, \h1E6FF>>, <<\h1E8D0, \h1E8D6>>, <<\h1E944, \h1E94B>>, <<\h1F3FB, \h1F3FF>>,
      <<\hE0001, \hE0001>>, <<\hE0020, \hE007F>>, <<\hE0100, \hE01EF>> }

\* ranges <<first, last>> of the code points from U+0080 that are Cased and
\* not Case_Ignorable
CasedRanges ==
    {
      <<\h00AA, \h00AA>>, <<\h00B5, \h00B5>>, <<\h00BA, \h00BA>>, <<\h00C0, \h00D6>>,
      <<\h00D8, \h00F6>>, <<\h00F8, \h01BA>>, <<\h01BC, \h01BF>>, <<\h01C4, \h0293>>,
      <<\h0296, \h02AF>>, <<\h0370, \h0373>>, <<\h0376, \h0377>>, <<\h037B, \h037D>>,
      <<\h037F, \h037F>>, <<\h0386, \h0386>>, <<\h0388, \h038A>>, <<\h038C, \h038C>>,
      <<\h038E, \h03A1>>, <<\h03A3, \h03F5>>, <<\h03F7, \h0481>>, <<\h048A, \h052F>>,
      <<\h0531, \h0556>>, <<\h0560, \h0588>>, <<\h10A0, \h10C5>>, <<\h10C7, \h10C7>>,
      <<\h10CD, \h10CD>>, <<\h10D0, \h10FA>>, <<\h10FD, \h10FF>>, <<\h13A0, \h13F5>>,
      <<\h13F8, \h13FD>>, <<\h1C80, \h1C8A>>, <<\h1C90, \h1CBA>>, <<\h1CBD, \h1CBF>>,
      <<\h1D00, \h1D2B>>, <<\h1D6B, \h1D77>>, <<\h1D79, \h1D9A>>, <<\h1E00, \h1F15>>,
      <<\h1F18, \h1F1D>>, <<\h1F20, \h1F45>>, <<\h1F48, \h1F4D>>, <<\h1F50, \h1F57>>,
      <<\h1F59, \h1F59>>, <<\h1F5B, \h1F5B>>, <<\h1F5D, \h1F5D>>, <<\h1F5F, \h1F7D>>,
      <<\h1F80, \h1FB4>>, <<\h1FB6, \h1FBC>>, <<\h1FBE, \h1FBE>>, <<\h1FC2, \h1FC4>>,
      <<\h1FC6, \h1FCC>>, <<\h1FD0, \h1FD3>>, <<\h1FD6, \h1FDB>>, <<\h1FE0, \h1FEC>>,
      <<\h1FF2, \h1FF4>>, <<\h1FF6, \h1FFC>>, <<\h2102, \h2102>>, <<\h2107, \h2107>>,
      <<\h210A, \h2113>>, <<\h2115, \h2115>>, <<\h2119, \h211D>>, <<\h2124, \h2124>>,
      <<\h2126, \h2126>>, <<\h2128, \h2128>>, <<\h212A, \h212D>>, <<\h212F, \h2134>>,
      <<\h2139, \h2139>>, <<\h213C, \h213F>>, <<\h2145, \h2149>>, <<\h214E, \h214E>>,
      <<\h2160, \h217F>>, <<\h2183, \h2184>>, <<\h24B6, \h24E9>>, <<\h2C00, \h2C7B>>,
      <<\h2C7E, \h2CE4>>, <<\h2CEB, \h2CEE>>, <<\h2CF2, \h2CF3>>, <<\h2D00, \h2D25>>,
      <<\h2D27, \h2D27>>, <<\h2D2D, \h2D2D>>, <<\hA640, \hA66D>>, <<\hA680, \hA69B>>,
      <<\hA722, \hA76F>>, <<\hA771, \hA787>>, <<\hA78B, \hA78E>>, <<\hA790, \hA7DC>>,
      <<\hA7F5, \hA7F6>>, <<\hA7FA, \hA7FA>>, <<\hAB30, \hAB5A>>, <<\hAB60, \hAB68>>,
      <<\hAB70, \hABBF>>, <<\hFB00, \hFB06>>, <<\hFB13, \hFB17>>, <<\hFF21, \hFF3A>>,
      <<\hFF41, \hFF5A>>, <<\h10400, \h1044F>>, <<\h104B0, \h104D3>>, <<\h104D8, \h104FB>>,
      <<\h10570, \h1057A>>, <<\h1057C, \h1058A>>, <<\h1058C, \h10592>>, <<\h10594, \h10595>>,
      <<\h10597, \h105A1>>, <<\h105A3, \h105B1>>, <<\h105B3, \h105B9>>, <<\h105BB, \h105BC>>,
      <<\h10C80, \h10CB2>>, <<\h10CC0, \h10CF2>>, <<\h10D50, \h10D65>>, <<\h10D70, \h10D85>>,
      <<\h118A0, \h118DF>>, <<\h16E40, \h16E7F>>, <<\h16EA0, \h16EB8>>, <<\h16EBB, \h16ED3>>,
      <<\h1D400, \h1D454>>, <<\h1D456, \h1D49C>>, <<\h1D49E, \h1D49F>>, <<\h1D4A2, \h1D4A2>>,
      <<\h1D4A5, \h1D4A6>>, <<\h1D4A9, \h1D4AC>>, <<\h1D4AE, \h1D4B9>>, <<\h1D4BB, \h1D4BB>>,
      <<\h1D4BD, \h1D4C3>>, <<\h1D4C5, \h1D505>>, <<\h1D507, \h1D50A>>, <<\h1D50D, \h1D514>>,
      <<\h1D516, \h1D51C>>, <<\h1D51E, \h1D539>>, <<\h1D53B, \h1D53E>>, <<\h1D540, \h1D544>>,
      <<\h1D546, \h1D546>>, <<\h1D54A, \h1D550>>, <<\h1D552, \h1D6A5>>, <<\h1D6A8, \h1D6C0>>,
      <<\h1D6C2, \h1D6DA>>, <<\h1D6DC, \h1D6FA>>, <<\h1D6FC, \h1D714>>, <<\h1D716, \h1D734>>,
      <<\h1D736, \h1D74E>>, <<\h1D750, \h1D76E>>, <<\h1D770, \h1D788>>, <<\h1D78A, \h1D7A8>>,
      <<\h1D7AA, \h1D7C2>>, <<\h1D7C4, \h1D7CB>>, <<\h1DF00, \h1DF09>>, <<\h1DF0B, \h1DF1E>>,
      <<\h1DF25, \h1DF2A>>, <<\h1E900, \h1E943>>, <<\h1F130, \h1F149>>, <<\h1F150, \h1F169>>,
      <<\h1F170, \h1F189>> }

\* code unit -> lower-case code unit, for the code units of LowerRules
LowerPairs ==
    UNION {{<<CodeUnit(n), CodeUnit(n + r[4])>> : n \in Steps(r)} : r \in LowerRules}

LowerMap ==
    [c \in {p[1] : p \in LowerPairs} |-> (CHOOSE p \in LowerPairs : p[1] = c)[2]]

\* <<high surrogate, low surrogate, low surrogate of the lower case>>: the
\* high surrogate of a pair is that of its lower case
AstralLowerTriples ==
    UNION {{<<HighSurrogate(n), LowSurrogate(n), LowSurrogate(n + r[4])>> : n \in Steps(r)}
           : r \in AstralLowerRules}

AstralLowerMap ==
    [p \in {<<t[1], t[2]>> : t \in AstralLowerTriples} |->
        (CHOOSE t \in AstralLowerTriples : <<t[1], t[2]>> = p)[3]]

CodePoints(ranges) == UNION {r[1]..r[2] : r \in ranges}

\* Case_Ignorable code units (apostrophe, full stop, colon, circumflex and
\* grave accent, U+0060, among the ASCII characters) and surrogate pairs
CaseIgnorableUnits ==
    {"'", ".", ":", "^", "U+0060"}
        \cup {CodeUnit(n) : n \in {m \in CodePoints(CaseIgnorableRanges) : m < 65536}}

CaseIgnorablePairs ==
    {<<HighSurrogate(n), LowSurrogate(n)>> :
        n \in {m \in CodePoints(CaseIgnorableRanges) : m >= 65536}}

\* Cased code units that are not Case_Ignorable, and such surrogate pairs
CasedUnits ==
    Range(LowerLetters) \cup Range(UpperLetters)
        \cup {CodeUnit(n) : n \in {m \in CodePoints(CasedRanges) : m < 65536}}

CasedPairs ==
    {<<HighSurrogate(n), LowSurrogate(n)>> :
        n \in {m \in CodePoints(CasedRanges) : m >= 65536}}

\* String.prototype.toLowerCase on a string of one code unit: the ASCII
\* letters, KELVIN SIGN (its lower case is the ASCII k), LATIN CAPITAL
\* LETTER I WITH DOT ABOVE (its lower case has two code units), and the
\* code units of LowerRules; every other code unit is its own lower case
ToLowerChar(c) ==
    IF \E i \in 1..26 : UpperLetters[i] = c
    THEN <<LowerLetters[CHOOSE i \in 1..26 : UpperLetters[i] = c]>>
    ELSE IF c = "U+212A" THEN <<"k">>
    ELSE IF c = "U+0130" THEN <<"i", "U+0307">>
    ELSE IF c \in DOMAIN LowerMap THEN <<LowerMap[c]>>
    ELSE <<c>>

\* the code unit at k is, or is half of, a Case_Ignorable code point
CaseIgnorableAt(s, k) ==
    \/ s[k] \in CaseIgnorableUnits
    \/ k < Len(s) /\ <<s[k], s[k + 1]>> \in CaseIgnorablePairs
    \/ k > 1 /\ <<s[k - 1], s[k]>> \in CaseIgnorablePairs

\* the code unit at k is, or is half of, a Cased code point that is not
\* Case_Ignorable
CasedAt(s, k) ==
    \/ s[k] \in CasedUnits
    \/ k < Len(s) /\ <<s[k], s[k + 1]>> \in CasedPairs
    \/ k > 1 /\ <<s[k - 1], s[k]>> \in CasedPairs

\* Final_Sigma: GREEK CAPITAL LETTER SIGMA at i comes after a cased letter
\* and any number of case-ignorable code points, and no cased letter
\* follows it in the same way; its lower case is then the final sigma
FinalSigma(s, i) ==
    /\ s[i] = "U+03A3"
    /\ \E j \in 1..(i - 1) :
           CasedAt(s, j) /\ \A k \in (j + 1)..(i - 1) : CaseIgnorableAt(s, k)
    /\ ~\E j \in (i + 1)..Len(s) :
           CasedAt(s, j) /\ \A k \in (i + 1)..(j - 1) : CaseIgnorableAt(s, k)

\* the lower case of the code unit at i of s
LowerAt(s, i) ==
    IF FinalSigma(s, i) THEN <<"U+03C2">>
    ELSE IF i > 1 /\ <<s[i - 1], s[i]>> \in DOMAIN AstralLowerMap
    THEN <<AstralLowerMap[<<s[i - 1], s[i]>>]>>
    ELSE ToLowerChar(s[i])

\* the lower case of s[a..b], the range taken by halves
RECURSIVE LowerRange(_, _, _)
LowerRange(s, a, b) ==
    IF a > b THEN <<>>
    ELSE IF a = b THEN LowerAt(s, a)
    ELSE LowerRange(s, a, (a + b) \div 2) \o LowerRange(s, ((a + b) \div 2) + 1, b)

\* String.prototype.toLowerCase
ToLowerCase(s) == LowerRange(s, 1, Len(s))

Includes(s, k) ==
    \E i \in 1..(Len(s) - Len(k) + 1) : SubSeq(s, i, i + Len(k) - 1) = k

\* from the first character that is not white space to the last one
Trim(s) ==
    LET keep == {i \in 1..Len(s) : s[i] \notin WhiteSpace}
        first == CHOOSE i \in keep : \A j \in 1..(i - 1) : j \notin keep
        last == CHOOSE i \in keep : \A j \in (i + 1)..Len(s) : j \notin keep
    IN  IF keep = {} THEN <<>> ELSE SubSeq(s, first, last)

EscapeChar(c) ==
    IF c = "<" THEN <<"&","l","t",";">>
    ELSE IF c = ">" THEN <<"&","g","t",";">>
    ELSE <<c>>

\* String.prototype.replace with /</g and />/g: every character on its own,
\* the string taken by halves
RECURSIVE EscapeAngles(_)
EscapeAngles(s) ==
    IF s = <<>> THEN <<>>
    ELSE IF Len(s) = 1 THEN EscapeChar(s[1])
    ELSE EscapeAngles(SubSeq(s, 1, Len(s) \div 2))
             \o EscapeAngles(SubSeq(s, (Len(s) \div 2) + 1, Len(s)))

\* lines 315-316
Clean(s) == Trim(EscapeAngles(s))

\* /^\w+\.\w+$/ at line 329
LooksLikeFilename(m) ==
    \E k \in 2..(Len(m) - 1) :
        /\ m[k] = "."
        /\ \A i \in 1..Len(m) : i # k => m[i] \in WordChars

HasNegativeKeyword(m) ==
    \E j \in 1..Len(negativeKeywords) : Includes(ToLowerCase(m), negativeKeywords[j])

\* line 325
MessageIdentifier(u, m) == Clean(u) \o Clean(m)

\* Set.prototype.has on the insertion-ordered set
Has(seen, id) == \E i \in 1..Len(seen) : seen[i] = id

\* the condition of the if without the test of line 328
GateAcceptsNoDedup(seen, u, m) ==
    /\ ~LooksLikeFilename(Clean(m))
    /\ ~HasNegativeKeyword(Clean(m))
    /\ Clean(m) # <<>>
    /\ Len(Clean(m)) <= MaxMessageLen
    /\ Len(Clean(m)) >= MinMessageLen

\* the condition of the if with both length limits exclusive
GateAcceptsStrictLength(seen, u, m) ==
    /\ ~Has(seen, MessageIdentifier(u, m))
    /\ ~LooksLikeFilename(Clean(m))
    /\ ~HasNegativeKeyword(Clean(m))
    /\ Clean(m) # <<>>
    /\ Len(Clean(m)) < MaxMessageLen
    /\ Len(Clean(m)) > MinMessageLen

\* the condition of the if at lines 327-334
GateAccepts(seen, u, m) ==
    /\ ~Has(seen, MessageIdentifier(u, m))
    /\ ~LooksLikeFilename(Clean(m))
    /\ ~HasNegativeKeyword(Clean(m))
    /\ Clean(m) # <<>>
    /\ Len(Clean(m)) <= MaxMessageLen
    /\ Len(Clean(m)) >= MinMessageLen

\* an insertion that at the limit drops the value inserted last
SeenAddDropNewest(seen, id) ==
    LET added == IF Has(seen, id) THEN seen ELSE Append(seen, id)
    IN  IF Len(added) > SeenCap THEN SubSeq(added, 1, Len(added) - 1) ELSE added

\* lines 335-340: Set.add, then drop the first value in insertion order
SeenAdd(seen, id) ==
    LET added == IF Has(seen, id) THEN seen ELSE Append(seen, id)
    IN  IF Len(added) > SeenCap THEN Tail(added) ELSE added

(***************************************************************************)
(* Forwarder registry: data/forwarders.json, read and rewritten as a whole.*)
(***************************************************************************)
\* Array.prototype.findIndex, 0 for -1
FirstSelected(fw) ==
    IF \E i \in 1..Len(fw) : fw[i].selected
    THEN SetMin({i \in 1..Len(fw) : fw[i].selected}) ELSE 0

\* the last entry that is not limited, where findIndex gives the first
LastNotLimited(fw) ==
    IF \E i \in 1..Len(fw) : ~fw[i].isUsageLimited
    THEN SetMax({i \in 1..Len(fw) : ~fw[i].isUsageLimited}) ELSE 0

FirstNotLimited(fw) ==
    IF \E i \in 1..Len(fw) : ~fw[i].isUsageLimited
    THEN SetMin({i \in 1..Len(fw) : ~fw[i].isUsageLimited}) ELSE 0

\* lines 79-105
getSelectedForwarderUrl(fw) ==
    IF FirstSelected(fw) # 0 /\ fw[FirstSelected(fw)].url # ""
    THEN fw[FirstSelected(fw)].url ELSE Null

\* a rotation that writes nothing back when no entry is free
rotateNoPersist(fw) ==
    LET cur == FirstSelected(fw)
        deactivated ==
            IF cur # 0
            THEN [fw EXCEPT ![cur] = [@ EXCEPT !.selected = FALSE, !.isUsageLimited = TRUE]]
            ELSE fw
        nxt == FirstNotLimited(deactivated)
    IN  IF nxt # 0
        THEN [list |-> [deactivated EXCEPT ![nxt] = [@ EXCEPT !.selected = TRUE]],
              url |-> deactivated[nxt].url]
        ELSE [list |-> fw, url |-> Null]

\* lines 113-165; the list written back and the value returned
rotateToNextForwarder(fw) ==
    LET cur == FirstSelected(fw)
        deactivated ==
            IF cur # 0
            THEN [fw EXCEPT ![cur] = [@ EXCEPT !.selected = FALSE, !.isUsageLimited = TRUE]]
            ELSE fw
        nxt == FirstNotLimited(deactivated)
    IN  IF nxt # 0
        THEN [list |-> [deactivated EXCEPT ![nxt] = [@ EXCEPT !.selected = TRUE]],
              url |-> deactivated[nxt].url]
        ELSE [list |-> deactivated, url |-> Null]

\* line 716
adminSelect(fw, url) ==
    [i \in 1..Len(fw) |-> [fw[i] EXCEPT !.selected = (fw[i].url = url)]]

(***************************************************************************)
(* The AI relay and the speech provider, as far as processChat looks at    *)
(* them.                                                                   *)
(***************************************************************************)
TextReply == "{\"content\":\"Hi there!\",\"emotion\":\"Surprised\"}"
TextNotJson == "Hi there!"
TextJsonNull == "null"
TextJsonEmpty == "{}"

\* What axios.post at line 364 can come back with: a rejection (network
\* error, non-2xx), or a body whose candidates[0].content.parts[0].text is
\* missing (Null) or is the given text.
AiResponses ==
    { [status |-> "error", text |-> Null],
      [status |-> "ok", text |-> Null],
      [status |-> "ok", text |-> TextReply],
      [status |-> "ok", text |-> TextNotJson],
      [status |-> "ok", text |-> TextJsonNull],
      [status |-> "ok", text |-> TextJsonEmpty] }

\* How the TTS leg of lines 406-412 can end: convert() rejects, or a
\* reader.read() of streamToBuffer (line 439) rejects ("fail"), or the stream
\* ends and the audio is complete ("ok").
TtsOutcomes == {"ok", "fail"}

\* aiRes.emotion is null, is undefined (the property is missing), or is a
\* string, a sequence of characters
NullEmotion == <<Null>>
UndefinedEmotion == <<Undefined>>

Surprised == <<"S","u","r","p","r","i","s","e","d">>

\* JSON.parse at line 371 on the texts above; isNull is the JavaScript null
JsonParse(text) ==
    IF text = TextReply
    THEN [ok |-> TRUE, value |-> [isNull |-> FALSE, content |-> "Hi there!", emotion |-> Surprised]]
    ELSE IF text = TextJsonNull
    THEN [ok |-> TRUE, value |-> [isNull |-> TRUE, content |-> Undefined, emotion |-> UndefinedEmotion]]
    ELSE IF text = TextJsonEmpty
    THEN [ok |-> TRUE, value |-> [isNull |-> FALSE, content |-> Undefined, emotion |-> UndefinedEmotion]]
    ELSE [ok |-> FALSE, value |-> [isNull |-> FALSE, content |-> Undefined, emotion |-> UndefinedEmotion]]

\* (aiRes.emotion).toLowerCase() at line 400
EmotionToLower(e) == ToLowerCase(e)

\* what a template literal makes of Object and of Object.prototype
ObjectFunctionText == "function Object() { [native code] }"
ObjectPrototypeText == "[object Object]"

\* lines 393-400: transformFormates[emotion.toLowerCase()], '' without
\* emotion.  transformFormates is an object literal: the lookup also finds
\* the two properties of Object.prototype whose names are in lower case,
\* given here by the text that line 403 makes of them.
EmotionTag(emotion) ==
    IF emotion \in {NullEmotion, UndefinedEmotion, <<>>} THEN ""
    ELSE LET e == EmotionToLower(emotion)
         IN  IF e = <<"h","a","p","p","y">> THEN "[excited]"
             ELSE IF e = <<"s","a","d">> THEN "[sad]"
             ELSE IF e = <<"r","e","l","a","x","e","d">> THEN "[whispers]"
             ELSE IF e = <<"s","u","r","p","r","i","s","e","d">> THEN "[surprised]"
             ELSE IF e = <<"c","o","n","s","t","r","u","c","t","o","r">> THEN ObjectFunctionText
             ELSE IF e = <<"_","_","p","r","o","t","o","_","_">> THEN ObjectPrototypeText
             ELSE Undefined

\* what a template literal makes of aiRes.content
ContentText(content) ==
    IF content = Undefined THEN "undefined"
    ELSE IF content = Null THEN "null"
    ELSE content

\* line 403
TextWithEmotion(aiRes) ==
    IF EmotionTag(aiRes.emotion) \in {"", Undefined}
    THEN aiRes.content
    ELSE EmotionTag(aiRes.emotion) \o " " \o ContentText(aiRes.content)

\* lines 406-413: the audio of a text, base64 encoded
Synthesize(text) == "base64:" \o text

\* what the catch blocks at lines 378, 383 and 388 assign
FallbackRes(text) == [isNull |-> FALSE, content |-> text, emotion |-> NullEmotion]

\* the catch at lines 386-390 rotating without assigning the fallback
AiResultNoFallback(resp) ==
    IF resp.status = "error"
    THEN [aiRes |-> [isNull |-> FALSE, content |-> Null, emotion |-> NullEmotion], rotate |-> TRUE]
    ELSE IF resp.text \in {Null, ""}
    THEN [aiRes |-> FallbackRes(FallbackNoResponse), rotate |-> TRUE]
    ELSE IF ~JsonParse(resp.text).ok
    THEN [aiRes |-> FallbackRes(FallbackError), rotate |-> TRUE]
    ELSE [aiRes |-> JsonParse(resp.text).value, rotate |-> FALSE]

\* lines 364-390: aiRes after the AI call, and whether rotateToNextForwarder ran
AiResult(resp) ==
    IF resp.status = "error"
    THEN [aiRes |-> FallbackRes(FallbackError), rotate |-> TRUE]
    ELSE IF resp.text \in {Null, ""}
    THEN [aiRes |-> FallbackRes(FallbackNoResponse), rotate |-> TRUE]
    ELSE IF ~JsonParse(resp.text).ok
    THEN [aiRes |-> FallbackRes(FallbackError), rotate |-> TRUE]
    ELSE [aiRes |-> JsonParse(resp.text).value, rotate |-> FALSE]

(***************************************************************************)
(* The handlers are functions of the whole program state, a record `w`     *)
(* with one field per variable.                                            *)
(***************************************************************************)
World ==
    [chatQueue |-> chatQueue, isProcessing |-> isProcessing,
     chatHistory |-> chatHistory, alreadyExistChats |-> alreadyExistChats,
     currentLiveChatSocket |-> currentLiveChatSocket,
     currentMintID |-> currentMintID, forwarders |-> forwarders,
     sockets |-> sockets, pipelines |-> pipelines,
     settled |-> settled, tick |-> tick, out |-> <<>>,
     enqCount |-> enqCount, startedNos |-> startedNos,
     broadcastNos |-> broadcastNos, droppedNos |-> droppedNos,
     acceptedSinceSwitch |-> acceptedSinceSwitch,
     evictedSinceSwitch |-> evictedSinceSwitch]

Becomes(w) ==
    /\ chatQueue' = w.chatQueue
    /\ isProcessing' = w.isProcessing
    /\ chatHistory' = w.chatHistory
    /\ alreadyExistChats' = w.alreadyExistChats
    /\ currentLiveChatSocket' = w.currentLiveChatSocket
    /\ currentMintID' = w.currentMintID
    /\ forwarders' = w.forwarders
    /\ sockets' = w.sockets
    /\ pipelines' = w.pipelines
    /\ settled' = w.settled
    /\ tick' = w.tick
    /\ out' = w.out
    /\ enqCount' = w.enqCount
    /\ startedNos' = w.startedNos
    /\ broadcastNos' = w.broadcastNos
    /\ droppedNos' = w.droppedNos
    /\ acceptedSinceSwitch' = w.acceptedSinceSwitch
    /\ evictedSinceSwitch' = w.evictedSinceSwitch

Emit(w, e) == [w EXCEPT !.out = Append(@, e)]

RemoveAt(s, i) == SubSeq(s, 1, i - 1) \o SubSeq(s, i + 1, Len(s))

\* lines 420-430, seen from one connected viewer whose readyState is OPEN:
\* the payload it is sent.  no, accepted, ai, tts and rotations are history
\* fields, not part of the payload.
Broadcast(w, p, aiRes, audio) ==
    [Emit(w, [ev |-> "broadcast", no |-> p.no, accepted |-> p.accepted,
              ai |-> p.ai, tts |-> p.tts, rotations |-> p.rotations,
              username |-> p.cleanUsername, userMessage |-> p.cleanUserMessage,
              message |-> aiRes.content, audio |-> audio,
              emotion |-> aiRes.emotion])
     EXCEPT !.broadcastNos = Append(@, p.no)]

\* the promise of processChat that line 62 awaits settles, by a return or by
\* a throw: processQueue goes on in a later microtask.  The event is history.
Settle(w, p, how) ==
    [Emit(w, [ev |-> "settled", no |-> p.no, accepted |-> p.accepted,
              how |-> how, url |-> p.url, ai |-> p.ai, tts |-> p.tts,
              rotations |-> p.rotations])
     EXCEPT !.settled = how]

NoResponse == [status |-> "none", text |-> Null]

\* aiRes as initialised at line 318
InitialRes == [isNull |-> FALSE, content |-> Null, emotion |-> NullEmotion]

\* a processChat that records the identifier of a turn before the gate
\* decides, so that suppressed turns are recorded too
processChatStartRecordsAll(w, job, history) ==
    LET u == Clean(job.username)
        m == Clean(job.message)
        id == MessageIdentifier(job.username, job.message)
        pair == [username |-> u, message |-> m]
        accepted == GateAccepts(w.alreadyExistChats, job.username, job.message)
        p == [no |-> job.no, accepted |-> accepted, history |-> history,
              cleanUsername |-> u, cleanUserMessage |-> m, url |-> Null,
              stage |-> "gate", aiRes |-> InitialRes, text |-> Null,
              ai |-> NoResponse, tts |-> "none", rotations |-> 0]
        w1 == [Emit(w, [ev |-> "gate", no |-> job.no, accepted |-> accepted,
                        repeat |-> pair \in w.acceptedSinceSwitch,
                        evicted |-> id \in w.evictedSinceSwitch,
                        username |-> u, message |-> m,
                        seen |-> Has(w.alreadyExistChats, id)])
               EXCEPT !.startedNos = Append(@, job.no)]
    IN  IF accepted
        THEN LET seen == SeenAdd(w.alreadyExistChats, id)
                 gone == IF Len(seen) = Len(w.alreadyExistChats) + 1
                         THEN {}
                         ELSE Range(Append(w.alreadyExistChats, id)) \ Range(seen)
                 w2 == [w1 EXCEPT !.alreadyExistChats = seen,
                                  !.acceptedSinceSwitch = @ \cup {pair},
                                  !.evictedSinceSwitch = (@ \ {id}) \cup gone]
                 url == getSelectedForwarderUrl(w.forwarders)
             IN  IF url = Null
                 THEN Settle(w2, p, "returned")
                 ELSE [Emit(w2, [ev |-> "aiCall", no |-> job.no, url |-> url])
                       EXCEPT !.pipelines =
                           Append(@, [p EXCEPT !.url = url, !.stage = "ai"])]
        ELSE Settle(Broadcast([w1 EXCEPT !.alreadyExistChats = SeenAdd(@, id)],
                              p, InitialRes, Null), p, "returned")

\* lines 312-364 of processChat, up to its first await or to its return: a
\* processChat that returns here leaves processQueue at the await of line 62
\* with a promise that is already settled
processChatStart(w, job, history) ==
    LET u == Clean(job.username)
        m == Clean(job.message)
        id == MessageIdentifier(job.username, job.message)
        pair == [username |-> u, message |-> m]
        accepted == GateAccepts(w.alreadyExistChats, job.username, job.message)
        p == [no |-> job.no, accepted |-> accepted, history |-> history,
              cleanUsername |-> u, cleanUserMessage |-> m, url |-> Null,
              stage |-> "gate", aiRes |-> InitialRes, text |-> Null,
              ai |-> NoResponse, tts |-> "none", rotations |-> 0]
        w1 == [Emit(w, [ev |-> "gate", no |-> job.no, accepted |-> accepted,
                        repeat |-> pair \in w.acceptedSinceSwitch,
                        evicted |-> id \in w.evictedSinceSwitch,
                        username |-> u, message |-> m,
                        seen |-> Has(w.alreadyExistChats, id)])
               EXCEPT !.startedNos = Append(@, job.no)]
    IN  IF accepted
        THEN LET seen == SeenAdd(w.alreadyExistChats, id)
                 gone == IF Len(seen) = Len(w.alreadyExistChats) + 1
                         THEN {}
                         ELSE Range(Append(w.alreadyExistChats, id)) \ Range(seen)
                 w2 == [w1 EXCEPT !.alreadyExistChats = seen,
                                  !.acceptedSinceSwitch = @ \cup {pair},
                                  !.evictedSinceSwitch = (@ \ {id}) \cup gone]
                 url == getSelectedForwarderUrl(w.forwarders)
             IN  IF url = Null
                 THEN Settle(w2, p, "returned")
                 ELSE [Emit(w2, [ev |-> "aiCall", no |-> job.no, url |-> url])
                       EXCEPT !.pipelines =
                           Append(@, [p EXCEPT !.url = url, !.stage = "ai"])]
        ELSE Settle(Broadcast(w1, p, InitialRes, Null), p, "returned")

\* processQueue without the lock test of line 54
processQueueNoLock(w) ==
    IF w.chatQueue = <<>>
    THEN w
    ELSE processChatStart([w EXCEPT !.isProcessing = TRUE, !.chatQueue = Tail(@)],
                          Head(w.chatQueue), w.chatHistory)

\* processQueue with pop() for shift() at line 58
processQueueLifo(w) ==
    IF w.isProcessing \/ w.chatQueue = <<>>
    THEN w
    ELSE processChatStart([w EXCEPT !.isProcessing = TRUE,
                                    !.chatQueue = SubSeq(@, 1, Len(@) - 1)],
                          w.chatQueue[Len(w.chatQueue)], w.chatHistory)

\* lines 53-62: up to the await
processQueue(w) ==
    IF w.isProcessing \/ w.chatQueue = <<>>
    THEN w
    ELSE processChatStart([w EXCEPT !.isProcessing = TRUE, !.chatQueue = Tail(@)],
                          Head(w.chatQueue), w.chatHistory)

\* a finally that releases the lock and does not look at the queue again
FinallyNoDrain(w) == [w EXCEPT !.isProcessing = FALSE]

\* a finally that looks at the queue again without releasing the lock
FinallyKeepsLock(w) == processQueue(w)

\* lines 65-68: release the lock and look at the queue again
Finally(w) == processQueue([w EXCEPT !.isProcessing = FALSE])

\* a rejection that is not caught leaves processQueue at line 62
OnRejectUncaught(w) == w

\* lines 63-68: a rejected processChat is caught and logged, then the finally
OnReject(w) == Finally(w)

\* lines 62-68: processQueue goes on after its await, in a microtask
processQueueResumes(w) ==
    IF w.settled = "rejected"
    THEN OnReject([w EXCEPT !.settled = "no", !.tick = 0])
    ELSE Finally([w EXCEPT !.settled = "no", !.tick = 0])

\* the microtasks are drained: processQueue goes on after its await, and
\* again for as long as the job it then starts returns without having awaited
RECURSIVE microtasks(_)
microtasks(w) ==
    IF w.settled = "no" THEN w ELSE microtasks(processQueueResumes(w))

\* the handler that ran was dispatched for source s (a feed socket, 0 for
\* the HTTP connection): what arrived with it from s is dispatched before
\* the microtasks it left behind
sameTick(w, s) == [w EXCEPT !.tick = IF w.settled = "no" THEN 0 ELSE s]

\* lines 364-412 of processChat: from the return of the AI call to the TTS
\* call, or to the rejection when aiRes is null (aiRes.emotion at line 400 is
\* caught at line 414, aiRes.content at line 425 is not caught in processChat)
processChatAfterAi(w, i, resp) ==
    LET p == w.pipelines[i]
        r == AiResult(resp)
        w1 == IF r.rotate
              THEN [Emit(w, [ev |-> "rotate", no |-> p.no])
                    EXCEPT !.forwarders = rotateToNextForwarder(@).list]
              ELSE w
        q == [p EXCEPT !.aiRes = r.aiRes, !.ai = resp,
                       !.rotations = IF r.rotate THEN @ + 1 ELSE @]
    IN  IF r.aiRes.isNull
        THEN Settle([w1 EXCEPT !.pipelines = RemoveAt(@, i)], q, "rejected")
        ELSE [Emit(w1, [ev |-> "ttsCall", no |-> p.no, text |-> TextWithEmotion(r.aiRes)])
              EXCEPT !.pipelines[i] =
                  [q EXCEPT !.stage = "tts", !.text = TextWithEmotion(r.aiRes)]]

\* line 406 resolves: convert() gave a stream, and processChat is suspended
\* again at the first reader.read() of streamToBuffer (lines 412 and 439)
processChatAfterConvert(w, i) == [w EXCEPT !.pipelines[i].stage = "stream"]

\* line 439 resolves with a chunk that is not the last: the chunk is kept in
\* a local array and processChat is suspended at the next reader.read()
processChatAfterChunk(w, i) == w

\* processChat without the try/catch of lines 392-416 around the TTS call
processChatAfterTtsUncaught(w, i, tts) ==
    LET p == [w.pipelines[i] EXCEPT !.tts = tts]
        rest == [w EXCEPT !.pipelines = RemoveAt(@, i)]
    IN  IF tts = "ok"
        THEN Settle(Broadcast(rest, p, p.aiRes, Synthesize(p.text)), p, "returned")
        ELSE Settle(rest, p, "rejected")

\* lines 406-430 of processChat: from the return of the TTS call to the
\* broadcast and the return
processChatAfterTts(w, i, tts) ==
    LET p == [w.pipelines[i] EXCEPT !.tts = tts]
        audio == IF tts = "ok" THEN Synthesize(p.text) ELSE Null
    IN  Settle(Broadcast([w EXCEPT !.pipelines = RemoveAt(@, i)], p, p.aiRes, audio),
               p, "returned")

(***************************************************************************)
(* Handlers.                                                               *)
(***************************************************************************)
\* a push that never shifts
pushHistoryNoShift(history, chatEntry) == Append(history, chatEntry)

\* lines 514-515, 556-559, 697-700: chatHistory.push, then shift above 100
pushHistory(history, chatEntry) ==
    IF Len(Append(history, chatEntry)) > HistoryCap
    THEN Tail(Append(history, chatEntry))
    ELSE Append(history, chatEntry)

\* lines 514-518, 556-564, 697-705: append to the history, enqueue, call
\* processQueue;
\* the event records the entry and the history it was appended to
enqueue(w, chatEntry) ==
    LET no == w.enqCount + 1
    IN  processQueue(
            [Emit(w, [ev |-> "append", entry |-> chatEntry, before |-> w.chatHistory])
             EXCEPT !.chatHistory = pushHistory(@, chatEntry),
                      !.chatQueue = Append(@, [username |-> chatEntry.username,
                                               message |-> chatEntry.message,
                                               no |-> no]),
                      !.enqCount = no])

\* String.prototype.slice(0, 6)
Slice06(s) == SubSeq(s, 1, IF Len(s) < SliceLen THEN Len(s) ELSE SliceLen)

\* lines 508-519
newMessage(w, data) ==
    IF data.username = <<>> \/ data.message = <<>> \/ data.userAddress = <<>>
    THEN w
    ELSE enqueue(w, [username |-> IF data.username = data.userAddress
                                  THEN Slice06(data.username) ELSE data.username,
                     message |-> data.message])

\* lines 544-567
testChat(w, body) ==
    IF body.username = <<>> \/ body.message = <<>>
    THEN w
    ELSE enqueue(w, [username |-> body.username, message |-> body.message])

AdminName == <<"s","u","p","e","r","_","a","d","m","i","n","_","0","4">>

\* lines 687-708
adminSendChat(w, message) ==
    IF message = <<>>
    THEN w
    ELSE enqueue(w, [username |-> AdminName, message |-> message])

\* the strings that String.prototype.toLowerCase turns into 'none': no
\* character outside a-z and A-Z lowers to one of "n", "o", "e"
NoneSpellings ==
    { "none", "nonE", "noNe", "noNE", "nOne", "nOnE", "nONe", "nONE",
      "None", "NonE", "NoNe", "NoNE", "NOne", "NOnE", "NONe", "NONE" }

\* mintID.toLowerCase() at line 450, as far as the comparison with 'none'
\* can tell: room ids are atoms of the model, any other id stands for its
\* own lower-case form
MintToLower(mintID) == IF mintID \in NoneSpellings THEN "none" ELSE mintID

\* the handlers of 'disconnect' and 'connect_error' with no identity check
onFeedDownUnchecked(w, s) ==
    [w EXCEPT !.currentLiveChatSocket = 0, !.currentMintID = Null]

\* lines 521-527 and 529-535: the handlers of 'disconnect' and
\* 'connect_error' of socket s
onFeedDown(w, s) ==
    IF w.currentLiveChatSocket = s
    THEN [w EXCEPT !.currentLiveChatSocket = 0, !.currentMintID = Null]
    ELSE w

\* one run of the handler of 'disconnect' or of 'connect_error' of socket
\* s, and the event recording it: what the handle and the room id were when
\* it started and what it left them as
runFeedDown(w, kind, s) ==
    Emit(onFeedDown(w, s),
         [ev |-> kind, socket |-> s,
          handle |-> w.currentLiveChatSocket, mintID |-> w.currentMintID,
          handleAfter |-> onFeedDown(w, s).currentLiveChatSocket,
          mintAfter |-> onFeedDown(w, s).currentMintID])

\* socket.disconnect() at lines 452 and 467: the socket is closed for good
\* (it does not reconnect) and, if it was connected, its own 'disconnect'
\* handler (lines 521-527) runs inside the call, before it returns
socketDisconnect(w, s) ==
    LET closed == [w EXCEPT !.sockets[s].connected = FALSE,
                            !.sockets[s].active = FALSE]
    IN  IF w.sockets[s].connected
        THEN runFeedDown(closed, "disconnect", s)
        ELSE closed

\* the feed connection of socket s is lost (again: the client reconnects on
\* its own, line 480; not again: the server closed the socket) and the
\* handler of lines 521-527 runs
feedDisconnect(w, s, again) ==
    runFeedDown([w EXCEPT !.sockets[s].connected = FALSE,
                          !.sockets[s].active = again], "disconnect", s)

\* a connection attempt of socket s fails (again: the connection could not
\* be established and the client goes on trying, line 480; not again: the
\* server refused it) and the handler of lines 529-535 runs
feedConnectError(w, s, again) ==
    runFeedDown([w EXCEPT !.sockets[s].active = again], "connect_error", s)

\* socket s connects, or reconnects: the handlers of lines 493-497 and
\* 503-506 join the room, they change nothing in the program
feedConnect(w, s) == [w EXCEPT !.sockets[s].connected = TRUE]

\* a reset that leaves alreadyExistChats alone
resetSessionKeepSeen(w) ==
    [w EXCEPT !.chatHistory = <<>>,
              !.droppedNos = @ \cup {w.chatQueue[i].no : i \in 1..Len(w.chatQueue)},
              !.chatQueue = <<>>]

\* lines 456-459 and 470-472
resetSession(w) ==
    [w EXCEPT !.chatHistory = <<>>,
              !.droppedNos = @ \cup {w.chatQueue[i].no : i \in 1..Len(w.chatQueue)},
              !.chatQueue = <<>>,
              !.alreadyExistChats = <<>>,
              !.acceptedSinceSwitch = {},
              !.evictedSinceSwitch = {}]

IsActive(socket) == socket.active

\* lines 446-538.  A socket that was closed for good raises no event any
\* more and nothing refers to it: the model forgets such sockets here, so
\* that `sockets` holds those that can still act.
newChat(w, mintID) ==
    LET w1 == IF w.currentLiveChatSocket # 0
              THEN socketDisconnect(w, w.currentLiveChatSocket) ELSE w
        kept == SelectSeq(w1.sockets, IsActive)
    IN  IF mintID = ""
        THEN w
        ELSE IF MintToLower(mintID) = "none"
        THEN resetSession([w1 EXCEPT !.currentLiveChatSocket = 0,
                                     !.currentMintID = Null,
                                     !.sockets = kept])
        ELSE [resetSession(w1) EXCEPT
                  !.currentMintID = mintID,
                  !.sockets = Append(kept, [mintID |-> mintID, connected |-> FALSE,
                                            active |-> TRUE]),
                  !.currentLiveChatSocket = Len(kept) + 1]

\* POST /new-chat, the event recording the call: its mintID and what it found
newChatCall(w, mintID) ==
    newChat(Emit(w, [ev |-> "newChat", mintID |-> mintID,
                     before |-> w.currentMintID, forwarders |-> w.forwarders,
                     history |-> Len(w.chatHistory), queue |-> Len(w.chatQueue),
                     seen |-> Len(w.alreadyExistChats)]), mintID)

\* 'newMessage' of socket s, the event recording the delivery
newMessageFrom(w, s, data) ==
    newMessage(Emit(w, [ev |-> "newMessage", socket |-> s,
                        history |-> w.chatHistory, enqCount |-> w.enqCount]), data)

\* lines 710-723
selectForwarder(w, url) == [w EXCEPT !.forwarders = adminSelect(@, url)]

\* the same, the event recording the call: its url and the list it read
selectForwarderCall(w, url) ==
    selectForwarder(Emit(w, [ev |-> "adminSelect", url |-> url,
                             before |-> w.forwarders]), url)

\* one call of rotateToNextForwarder on the persisted list (the calls of lines
\* 379, 384 and 389); the event records the list it read and what it returned
failover(w) ==
    [Emit(w, [ev |-> "failover", before |-> w.forwarders,
              url |-> rotateToNextForwarder(w.forwarders).url])
     EXCEPT !.forwarders = rotateToNextForwarder(@).list]

(***************************************************************************)
(* Inputs of the model.                                                    *)
(***************************************************************************)
Bob == <<"b","o","b">>
Wallet == <<"w","a","l","l","e","t","9","9">>

FeedData ==
    { [username |-> Wallet, message |-> <<"a","<","b">>, userAddress |-> Wallet],
      [username |-> Bob, message |-> <<>>, userAddress |-> <<"w","1">>] }

TestBodies ==
    { [username |-> Bob, message |-> <<" ","h","i"," ">>],
      [username |-> <<>>, message |-> <<"h","i">>] }

AdminMessages == { <<"a",".","b">>, <<>> }

MintIDs == {"roomA", "NONE", ""}

\* a mintID for which POST /new-chat creates a socket (line 489)
OpensSocket(mintID) == mintID # "" /\ MintToLower(mintID) # "none"

\* the sockets that POST /new-chat would leave as they are: those that can
\* still act and that currentLiveChatSocket does not hold
Untracked ==
    {s \in 1..Len(sockets) : sockets[s].active /\ s # currentLiveChatSocket}

Urls == {"http://fwd1", "http://fwd2", "http://other"}

InitialForwarders ==
    { << [url |-> "http://fwd1", isUsageLimited |-> FALSE, selected |-> TRUE],
         [url |-> "http://fwd2", isUsageLimited |-> FALSE, selected |-> FALSE] >>,
      << [url |-> "http://fwd1", isUsageLimited |-> FALSE, selected |-> TRUE],
         [url |-> "http://fwd2", isUsageLimited |-> TRUE, selected |-> FALSE] >> }

(***************************************************************************)
(* The state machine.  The event loop dispatches a connection event of the *)
(* feed, or a resumption of processChat, only when the microtasks are      *)
(* drained (settled = "no"); before a pending finally only what arrived    *)
(* with the handler that left it is dispatched.                            *)
(***************************************************************************)
InitCommon ==
    /\ chatQueue = <<>>
    /\ isProcessing = FALSE
    /\ forwarders \in InitialForwarders
    /\ pipelines = <<>>
    /\ settled = "no"
    /\ tick = 0
    /\ out = <<>>
    /\ enqCount = 0
    /\ startedNos = <<>>
    /\ broadcastNos = <<>>
    /\ droppedNos = {}
    /\ evictedSinceSwitch = {}

InitFresh ==
    /\ currentLiveChatSocket = 0
    /\ currentMintID = Null
    /\ sockets = <<>>
    /\ chatHistory = <<>>
    /\ alreadyExistChats = <<>>
    /\ acceptedSinceSwitch = {}

Init == InitCommon /\ InitFresh

\* a handler can be dispatched for source s (a feed socket, 0 for the HTTP
\* connection): before a pending finally, only for the source of the tick
Dispatches(s) == settled # "no" => s = tick

\* one 'newMessage' packet of socket s is dispatched; the microtasks it
\* leaves behind wait for the packets that were decoded with it.  The same
\* holds for every HTTP request below and the requests parsed with it.
NewMessage ==
    \E s \in 1..Len(sockets), data \in FeedData :
        /\ sockets[s].connected
        /\ Dispatches(s)
        /\ enqCount < MaxEnq
        /\ Becomes(sameTick(newMessage(World, data), s))

\* the last handler of the tick has returned: the finally of lines 65-68
\* runs, and the microtasks that follow it
FinallyRuns == settled # "no" /\ Becomes(microtasks(World))

TestChat ==
    \E body \in TestBodies :
        /\ enqCount < MaxEnq
        /\ Dispatches(0)
        /\ Becomes(sameTick(testChat(World, body), 0))

AdminSendChat ==
    \E message \in AdminMessages :
        /\ enqCount < MaxEnq
        /\ Dispatches(0)
        /\ Becomes(sameTick(adminSendChat(World, message), 0))

NewChat ==
    \E mintID \in MintIDs :
        /\ OpensSocket(mintID) => Cardinality(Untracked) + 1 <= MaxSockets
        /\ Dispatches(0)
        /\ Becomes(sameTick(newChat(World, mintID), 0))

SelectForwarder ==
    \E url \in Urls :
        /\ Dispatches(0)
        /\ Becomes(sameTick(selectForwarder(World, url), 0))

FeedConnect ==
    \E s \in 1..Len(sockets) :
        /\ sockets[s].active /\ ~sockets[s].connected
        /\ settled = "no"
        /\ Becomes(microtasks(feedConnect(World, s)))

FeedDisconnect ==
    \E s \in 1..Len(sockets), again \in BOOLEAN :
        /\ sockets[s].connected
        /\ settled = "no"
        /\ Becomes(microtasks(feedDisconnect(World, s, again)))

FeedConnectError ==
    \E s \in 1..Len(sockets), again \in BOOLEAN :
        /\ sockets[s].active /\ ~sockets[s].connected
        /\ settled = "no"
        /\ Becomes(microtasks(feedConnectError(World, s, again)))

AiReturns ==
    \E i \in 1..Len(pipelines), resp \in AiResponses :
        /\ pipelines[i].stage = "ai"
        /\ settled = "no"
        /\ Becomes(microtasks(processChatAfterAi(World, i, resp)))

TtsConverts ==
    \E i \in 1..Len(pipelines) :
        /\ pipelines[i].stage = "tts"
        /\ settled = "no"
        /\ Becomes(microtasks(processChatAfterConvert(World, i)))

StreamReads ==
    \E i \in 1..Len(pipelines) :
        /\ pipelines[i].stage = "stream"
        /\ settled = "no"
        /\ Becomes(microtasks(processChatAfterChunk(World, i)))

TtsReturns ==
    \E i \in 1..Len(pipelines), tts \in TtsOutcomes :
        /\ \/ pipelines[i].stage = "tts" /\ tts = "fail"
           \/ pipelines[i].stage = "stream"
        /\ settled = "no"
        /\ Becomes(microtasks(processChatAfterTts(World, i, tts)))

Next ==
    \/ NewMessage
    \/ FinallyRuns
    \/ TestChat
    \/ AdminSendChat
    \/ NewChat
    \/ SelectForwarder
    \/ FeedConnect
    \/ FeedConnectError
    \/ FeedDisconnect
    \/ AiReturns
    \/ TtsConverts
    \/ StreamReads
    \/ TtsReturns

Spec == Init /\ [][Next]_vars

(***************************************************************************)
(* A second initial state: the program connected to room "roomA" after     *)
(* 1000 distinct turns have been accepted there and every one of them has  *)
(* finished.  The oldest identifier of alreadyExistChats is that of the    *)
(* feed turn of "wallet"; the other 999 are turns of user "#" whose        *)
(* messages are four-digit numbers, the last 100 of which fill chatHistory.*)
(***************************************************************************)
FillerName == <<"#">>
FillerMessage(i) ==
    << Digits[((i \div 1000) % 10) + 1], Digits[((i \div 100) % 10) + 1],
       Digits[((i \div 10) % 10) + 1], Digits[(i % 10) + 1] >>

OldestTurn == [username |-> Slice06(Wallet), message |-> <<"a","<","b">>]

LoadedSeen ==
    [i \in 1..SeenCap |->
        IF i = 1 THEN MessageIdentifier(OldestTurn.username, OldestTurn.message)
        ELSE MessageIdentifier(FillerName, FillerMessage(i - 1))]

\* of the 1000 accepted turns, the one that the model's inputs can repeat
LoadedAccepted ==
    {[username |-> Clean(OldestTurn.username), message |-> Clean(OldestTurn.message)]}

LoadedHistory ==
    [i \in 1..HistoryCap |->
        [username |-> FillerName, message |-> FillerMessage(SeenCap - 1 - HistoryCap + i)]]

InitLoaded ==
    /\ InitCommon
    /\ currentLiveChatSocket = 1
    /\ currentMintID = "roomA"
    /\ sockets = << [mintID |-> "roomA", connected |-> TRUE, active |-> TRUE] >>
    /\ chatHistory = LoadedHistory
    /\ alreadyExistChats = LoadedSeen
    /\ acceptedSinceSwitch = LoadedAccepted

\* every handler that appends, dedups or resets; the forwarder selection of
\* the admin is left out, the registry still changes by rotation
NextLoaded ==
    \/ NewMessage
    \/ FinallyRuns
    \/ TestChat
    \/ AdminSendChat
    \/ NewChat
    \/ AiReturns
    \/ TtsConverts
    \/ StreamReads
    \/ TtsReturns

SpecLoaded == InitLoaded /\ [][NextLoaded]_vars

(***************************************************************************)
(* The session: room switches between two rooms and "none", and the feed    *)
(* sockets with what socket.io does to them (connect, connect_error,        *)
(* disconnect followed or not by a reconnection), next to the turns of the  *)
(* feed and their pipelines.  The calls are recorded in out.                *)
(***************************************************************************)
SessionMintIDs == {"roomA", "roomB", "NONE", ""}

SwitchRoom ==
    \E mintID \in SessionMintIDs :
        /\ OpensSocket(mintID) => Cardinality(Untracked) + 1 <= MaxSessionSockets
        /\ Dispatches(0)
        /\ Becomes(sameTick(newChatCall(World, mintID), 0))

FeedMessage ==
    \E s \in 1..Len(sockets), data \in FeedData :
        /\ sockets[s].connected
        /\ Dispatches(s)
        /\ enqCount < MaxEnq
        /\ Becomes(sameTick(newMessageFrom(World, s, data), s))

NextSession ==
    \/ SwitchRoom
    \/ FeedConnect
    \/ FeedConnectError
    \/ FeedDisconnect
    \/ FeedMessage
    \/ FinallyRuns
    \/ AiReturns
    \/ TtsConverts
    \/ StreamReads
    \/ TtsReturns

SpecSession == Init /\ [][NextSession]_vars

(***************************************************************************)
(* The forwarder registry on its own: rotateToNextForwarder and the         *)
(* handler of /admin/select-forwarder applied, in any order, to a persisted *)
(* list of up to MaxForwarders entries.  The file is written by hand, so    *)
(* nothing keeps two entries from having the same url; at most one entry is *)
(* selected to begin with.                                                  *)
(***************************************************************************)
RegistryUrls == {"http://fwd1", "http://fwd2"}

ForwarderEntries == [url : RegistryUrls, isUsageLimited : BOOLEAN, selected : BOOLEAN]

SelectedIn(fw) == {i \in 1..Len(fw) : fw[i].selected}

RegistryLists ==
    UNION { {fw \in [1..n -> ForwarderEntries] : Cardinality(SelectedIn(fw)) <= 1}
            : n \in 2..MaxForwarders }

InitRegistry ==
    /\ InitFresh
    /\ chatQueue = <<>>
    /\ isProcessing = FALSE
    /\ forwarders \in RegistryLists
    /\ pipelines = <<>>
    /\ settled = "no"
    /\ tick = 0
    /\ out = <<>>
    /\ enqCount = 0
    /\ startedNos = <<>>
    /\ broadcastNos = <<>>
    /\ droppedNos = {}
    /\ evictedSinceSwitch = {}

Failover == Becomes(failover(World))

AdminSelect == \E url \in Urls : Becomes(selectForwarderCall(World, url))

NextRegistry ==
    \/ Failover
    \/ AdminSelect

SpecRegistry == InitRegistry /\ [][NextRegistry]_vars

(***************************************************************************)
(* The filter gate at its length limits: turns of /test-chat whose         *)
(* messages have 1, 2, 200 and 201 characters once normalized.  The raw    *)
(* length differs from the normalized one where the message is padded with *)
(* blanks or holds a "<", which the escape replaces by four characters.    *)
(***************************************************************************)
Repeat(c, n) == [i \in 1..n |-> c]

GateMessages ==
    { Repeat("x", MinMessageLen - 1),
      Repeat("x", MinMessageLen),
      <<"\f">> \o Repeat("y", MinMessageLen - 1) \o <<"U+3000">>,
      <<"f", "a", "U+212A", "e">>,
      <<"<">>,
      Repeat("x", MaxMessageLen),
      <<" ">> \o Repeat("y", MaxMessageLen) \o <<" ">>,
      Repeat("z", MaxMessageLen - 4) \o <<"<">>,
      Repeat("z", MaxMessageLen - 3) \o <<"<">> }

GateChat ==
    \E message \in GateMessages :
        /\ enqCount < MaxGateEnq
        /\ Dispatches(0)
        /\ Becomes(sameTick(testChat(World, [username |-> Bob, message |-> message]), 0))

NextGate ==
    \/ GateChat
    \/ FinallyRuns
    \/ AiReturns
    \/ TtsConverts
    \/ StreamReads
    \/ TtsReturns

SpecGate == Init /\ [][NextGate]_vars

\* a pipeline is suspended at the await of line 364: AiReturns is enabled
AiPending == \E i \in 1..Len(pipelines) : pipelines[i].stage = "ai"

\* a pipeline is suspended in the TTS leg, at the await of line 406 or at a
\* reader.read() of line 439: TtsReturns is enabled
TtsPending == \E i \in 1..Len(pipelines) : pipelines[i].stage \in {"tts", "stream"}

\* The worker with the HTTP entry points: /test-chat, /admin/send-chat,
\* /new-chat and /admin/select-forwarder, and the resumptions of processChat.
\* The feed is left out: its sockets never connect and deliver nothing.
NextWorker ==
    \/ TestChat
    \/ FinallyRuns
    \/ AdminSendChat
    \/ NewChat
    \/ SelectForwarder
    \/ AiReturns
    \/ TtsConverts
    \/ StreamReads
    \/ TtsReturns

\* Every AI call eventually returns or fails, every TTS leg eventually
\* ends and a pending microtask runs (a chunk holds finitely many requests):
\* weak fairness of AiReturns, of TtsReturns and of FinallyRuns, written out
\* with AiPending for ENABLED <<AiReturns>>_vars, TtsPending for
\* ENABLED <<TtsReturns>>_vars and settled # "no" for
\* ENABLED <<FinallyRuns>>_vars.  The triggers (HTTP requests) are under no
\* obligation.
FairSpec ==
    /\ Init /\ [][NextWorker]_vars
    /\ (<>[](settled # "no")) => ([]<><<FinallyRuns>>_vars)
    /\ (<>[]AiPending) => ([]<><<AiReturns>>_vars)
    /\ (<>[]TtsPending) => ([]<><<TtsReturns>>_vars)

(***************************************************************************)
(* Properties.                                                             *)
(***************************************************************************)
Is(i, kind) == out[i].ev = kind

BroadcastsOf(n) == {i \in 1..Len(out) : Is(i, "broadcast") /\ out[i].no = n}

Times(seq, x) == Cardinality({k \in 1..Len(seq) : seq[k] = x})

StrictlyIncreasing(seq) ==
    \A i, j \in 1..Len(seq) : i < j => seq[i] < seq[j]

Fallbacks == {FallbackError, FallbackNoResponse}

\* the text is a JSON-encoded object with a content and an emotion
IsReplyObject(text) ==
    /\ JsonParse(text).ok
    /\ ~JsonParse(text).value.isNull
    /\ JsonParse(text).value.content # Undefined
    /\ JsonParse(text).value.emotion # UndefinedEmotion

\* the AI call failed, or its body has no text, or the text is no reply object
AiFailed(resp) ==
    \/ resp.status = "error"
    \/ resp.status = "ok" /\ resp.text = Null
    \/ resp.status = "ok" /\ resp.text # Null /\ ~IsReplyObject(resp.text)

\* C1: at most one processChat pipeline is suspended at its AI or TTS call,
\* the lock is held while it is, and one handler run issues at most one AI
\* call: a processQueue call made while the lock is held starts nothing.
C1_AtMostOnePipeline ==
    /\ Len(pipelines) <= 1
    /\ pipelines # <<>> => isProcessing
    /\ Cardinality({i \in 1..Len(out) : Is(i, "aiCall")}) <= 1

\* C1 witness: one pipeline in flight while two later triggers have left
\* their turns in the queue.
C1_TwoTriggersWhileInFlight ==
    /\ Len(pipelines) = 1
    /\ isProcessing
    /\ Len(chatQueue) >= 2

\* C2: turns are handed to processChat in enqueue order, their broadcasts
\* are emitted in enqueue order, and a pipeline in flight belongs to the turn
\* started last: every turn started before it has finished, and nothing
\* queued behind it has started or been broadcast.
C2_FifoOrder ==
    /\ StrictlyIncreasing(startedNos)
    /\ StrictlyIncreasing(broadcastNos)
    /\ \A k \in 1..Len(broadcastNos) : Times(startedNos, broadcastNos[k]) = 1
    /\ \A i \in 1..Len(pipelines) :
           /\ pipelines[i].no = startedNos[Len(startedNos)]
           /\ \A k \in 1..Len(broadcastNos) : broadcastNos[k] < pipelines[i].no
    /\ \A q \in 1..Len(chatQueue) :
           /\ \A k \in 1..Len(startedNos) : startedNos[k] < chatQueue[q].no
           /\ \A r \in 1..Len(chatQueue) : q < r => chatQueue[q].no < chatQueue[r].no

\* C2 witness: three turns have been broadcast in their enqueue order, the
\* third one having waited in the queue for the pipeline of the second.
C2_ThreeBroadcastInOrder ==
    /\ broadcastNos = <<1, 2, 3>>
    /\ \E i, j \in 1..Len(out) :
           /\ i < j
           /\ Is(i, "settled") /\ out[i].no = 2 /\ out[i].ai.status # "none"
           /\ Is(j, "gate") /\ out[j].no = 3

\* C3 as claimed, in the form a finite run refutes: an enqueued turn is
\* never lost, it is in the queue until processChat is called with it.
C3_NeverDropped ==
    \A n \in 1..enqCount :
        \/ \E q \in 1..Len(chatQueue) : chatQueue[q].no = n
        \/ \E k \in 1..Len(startedNos) : startedNos[k] = n

\* C3 as amended: when every AI and TTS call returns, an enqueued turn is
\* eventually handed to processChat, unless a room switch removed it from
\* the queue first.
C3_StartedUnlessSwitched ==
    \A n \in 1..MaxEnq :
        (enqCount >= n) ~> (n \in droppedNos \/ \E k \in 1..Len(startedNos) : startedNos[k] = n)

\* C3 witness: a turn that had to wait behind a pipeline in flight is started
\* by the drain that follows that pipeline, while another turn was removed
\* by a room switch.
C3_DelayedTurnStarted ==
    /\ droppedNos # {}
    /\ \E i, j \in 1..Len(out) :
           /\ i < j
           /\ Is(i, "settled") /\ out[i].ai.status # "none"
           /\ Is(j, "gate") /\ out[j].no > out[i].no

\* C4: when processChat rejects, processQueue catches it: afterwards the
\* lock is held only by a next pipeline, and the drain has gone on with the
\* next queued turn, so that no turn is left in the queue behind a free lock.
C4_RejectionIsCaught ==
    \A i \in 1..Len(out) :
        (Is(i, "settled") /\ out[i].how = "rejected") =>
            /\ isProcessing <=> pipelines # <<>>
            /\ pipelines = <<>> => chatQueue = <<>>
            /\ IF i < Len(out)
               THEN Is(i + 1, "gate") /\ out[i + 1].no > out[i].no
               ELSE chatQueue = <<>>

\* C4 witness: a pipeline threw and the same drain started the next turn.
C4_DrainGoesOnAfterThrow ==
    \E i \in 1..Len(out) :
        /\ Is(i, "settled") /\ out[i].how = "rejected"
        /\ i < Len(out)
        /\ Is(i + 1, "gate")

\* C5 as claimed: no viewer is sent anything for a turn that the filter gate
\* suppressed.
C5_SuppressedNeverBroadcast ==
    \A i \in 1..Len(out) : Is(i, "broadcast") => out[i].accepted

\* C6 as claimed: a turn whose pair was accepted since the last room switch
\* is suppressed.
C6_RepeatAlwaysSuppressed ==
    \A i \in 1..Len(out) :
        (Is(i, "gate") /\ out[i].repeat) => ~out[i].accepted

\* C6 as amended: a turn whose pair was accepted since the last room switch
\* is suppressed, unless its identifier has since been evicted from
\* alreadyExistChats, which happens only at the limit of 1000 identifiers.
C6_RepeatSuppressedUnlessEvicted ==
    /\ \A i \in 1..Len(out) :
           (Is(i, "gate") /\ out[i].repeat /\ ~out[i].evicted) => ~out[i].accepted
    /\ evictedSinceSwitch # {} => Len(alreadyExistChats) = SeenCap
    /\ Len(alreadyExistChats) <= SeenCap

\* C6 witness: a duplicate that was queued while the first occurrence was in
\* flight is suppressed by the drain that follows the first occurrence.
C6_DuplicateBehindFirstSuppressed ==
    \E i, j, k \in 1..Len(out) :
        /\ i < j /\ j < k
        /\ Is(i, "broadcast") /\ out[i].accepted /\ out[i].ai.status # "none"
        /\ Is(j, "gate") /\ out[j].repeat /\ ~out[j].evicted /\ ~out[j].accepted
        /\ Is(k, "broadcast") /\ out[k].no = out[j].no
        /\ out[k].username = out[i].username
        /\ out[k].userMessage = out[i].userMessage

\* C7 as claimed: every accepted turn is broadcast exactly once when its
\* processChat settles, with the fallback text when no forwarder is selected.
C7_AcceptedBroadcastOnce ==
    \A i \in 1..Len(out) :
        (Is(i, "settled") /\ out[i].accepted) =>
            /\ Cardinality(BroadcastsOf(out[i].no)) = 1
            /\ Times(broadcastNos, out[i].no) = 1
            /\ out[i].url = Null =>
                   \A b \in BroadcastsOf(out[i].no) : out[b].message \in Fallbacks

\* C8 as claimed: when the AI call of an accepted turn fails, has no text or
\* has a text that is no {content, emotion} object, the turn is broadcast
\* with a fallback text and emotion null, and the forwarder is rotated once.
C8_AiFailureFallsBack ==
    \A i \in 1..Len(out) :
        (Is(i, "settled") /\ out[i].accepted /\ AiFailed(out[i].ai)) =>
            /\ out[i].rotations = 1
            /\ BroadcastsOf(out[i].no) # {}
            /\ \A b \in BroadcastsOf(out[i].no) :
                   out[b].message \in Fallbacks /\ out[b].emotion = NullEmotion

\* C9 as claimed: after a network error of the AI call the broadcast has the
\* fallback text, emotion null and audio null.
C9_NetworkErrorNoAudio ==
    \A i \in 1..Len(out) :
        (Is(i, "broadcast") /\ out[i].ai.status = "error") =>
            /\ out[i].message = FallbackError
            /\ out[i].emotion = NullEmotion
            /\ out[i].audio = Null

\* C9 as amended: after a network error of the AI call the turn is broadcast
\* with the fallback text and emotion null; the audio is the synthesized
\* fallback text, and null only when that synthesis fails.
C9_NetworkErrorFallback ==
    \A i \in 1..Len(out) :
        (Is(i, "settled") /\ out[i].ai.status = "error") =>
            /\ BroadcastsOf(out[i].no) # {}
            /\ \A b \in BroadcastsOf(out[i].no) :
                   /\ out[b].message = FallbackError
                   /\ out[b].emotion = NullEmotion
                   /\ out[b].audio = IF out[b].tts = "ok"
                                     THEN Synthesize(FallbackError) ELSE Null

\* C9 witness: a network error of the AI call followed by a working TTS call.
C9_FallbackIsSpoken ==
    \E i \in 1..Len(out) :
        /\ Is(i, "broadcast") /\ out[i].ai.status = "error"
        /\ out[i].tts = "ok"
        /\ out[i].audio # Null

\* C10: when the AI call returned a reply object and the TTS call fails, the
\* turn is broadcast exactly once, with audio null and with the content and
\* the emotion of the reply.
C10_TtsFailureKeepsReply ==
    \A i \in 1..Len(out) :
        (Is(i, "settled") /\ out[i].ai.status = "ok" /\ out[i].ai.text # Null
            /\ IsReplyObject(out[i].ai.text) /\ out[i].tts = "fail") =>
            /\ Cardinality(BroadcastsOf(out[i].no)) = 1
            /\ Times(broadcastNos, out[i].no) = 1
            /\ \A b \in BroadcastsOf(out[i].no) :
                   /\ out[b].audio = Null
                   /\ out[b].message = JsonParse(out[i].ai.text).value.content
                   /\ out[b].emotion = JsonParse(out[i].ai.text).value.emotion

\* C10 witness: a reply object from the AI call, then a failed TTS call.
C10_ReplyThenTtsFailure ==
    \E i \in 1..Len(out) :
        /\ Is(i, "broadcast") /\ out[i].ai.text = TextReply
        /\ out[i].tts = "fail"
        /\ out[i].message = "Hi there!"
        /\ out[i].emotion = Surprised

(***************************************************************************)
(* The forwarder registry (checked under SpecRegistry, where out holds the  *)
(* one call that led to the current list).                                  *)
(***************************************************************************)
FreeIn(fw) == {i \in 1..Len(fw) : ~fw[i].isUsageLimited}

\* the entry that the call finds selected: the first one marked
CurrentlySelected(fw, c) ==
    /\ c \in 1..Len(fw)
    /\ fw[c].selected
    /\ \A j \in 1..(c - 1) : ~fw[j].selected

\* the first entry in list order that is free, the currently selected one
\* counting as limited
FirstFreeOther(fw, n) ==
    /\ n \in FreeIn(fw)
    /\ ~CurrentlySelected(fw, n)
    /\ \A j \in 1..(n - 1) : j \in FreeIn(fw) => CurrentlySelected(fw, j)

\* C11: rotateToNextForwarder marks the entry it finds selected as limited
\* and not selected, then selects the first entry in list order that is not
\* limited and returns its url, touching nothing else; when, the marking
\* done, a list of two has one limited and one free entry, the free one is
\* selected and returned.
C11_FailoverSelectsFirstFree ==
    \A i \in 1..Len(out) :
        Is(i, "failover") =>
            /\ Len(forwarders) = Len(out[i].before)
            /\ \A c \in 1..Len(forwarders) :
                   CurrentlySelected(out[i].before, c) =>
                       forwarders[c].isUsageLimited /\ ~forwarders[c].selected
            /\ \A n \in 1..Len(forwarders) :
                   FirstFreeOther(out[i].before, n) =>
                       /\ forwarders[n].selected
                       /\ ~forwarders[n].isUsageLimited
                       /\ out[i].url = out[i].before[n].url
            /\ \A k \in 1..Len(forwarders) :
                   (~CurrentlySelected(out[i].before, k) /\ ~FirstFreeOther(out[i].before, k)) =>
                       forwarders[k] = out[i].before[k]
            /\ \A k \in 1..Len(forwarders) : forwarders[k].url = out[i].before[k].url
            /\ (Len(forwarders) = 2 /\ Cardinality(FreeIn(forwarders)) = 1) =>
                   \A k \in FreeIn(forwarders) :
                       forwarders[k].selected /\ out[i].url = forwarders[k].url

\* C11 witness: the selected entry of a list of three was marked and, of the
\* two free entries left, the first one was selected and returned.
C11_SecondOfThreePromoted ==
    \E i \in 1..Len(out) :
        /\ Is(i, "failover")
        /\ Len(forwarders) = 3
        /\ out[i].before[1].selected /\ ~out[i].before[1].isUsageLimited
        /\ FreeIn(out[i].before) = {1, 2, 3}
        /\ forwarders[1].isUsageLimited /\ ~forwarders[1].selected
        /\ forwarders[2].selected /\ ~forwarders[3].selected
        /\ out[i].url = forwarders[2].url

\* C12: when at most one entry is selected and every other entry is limited,
\* rotateToNextForwarder returns null and the list it writes back has every
\* entry limited and not selected, so that getSelectedForwarderUrl returns
\* null afterwards.
C12_ExhaustedFailover ==
    \A i \in 1..Len(out) :
        (/\ Is(i, "failover")
         /\ Cardinality(SelectedIn(out[i].before)) <= 1
         /\ \A k \in 1..Len(out[i].before) :
                ~out[i].before[k].selected => out[i].before[k].isUsageLimited) =>
            /\ out[i].url = Null
            /\ Len(forwarders) = Len(out[i].before)
            /\ \A k \in 1..Len(forwarders) :
                   /\ forwarders[k].isUsageLimited
                   /\ ~forwarders[k].selected
                   /\ forwarders[k].url = out[i].before[k].url
            /\ getSelectedForwarderUrl(forwarders) = Null

\* C12 witness: the last free entry was the selected one; the call marked it
\* and found nothing to promote.
C12_LastFreeEntryMarked ==
    \E i \in 1..Len(out) :
        /\ Is(i, "failover")
        /\ out[i].url = Null
        /\ \E c \in 1..Len(forwarders) :
               /\ out[i].before[c].selected /\ ~out[i].before[c].isUsageLimited
               /\ FreeIn(out[i].before) = {c}
               /\ SelectedIn(out[i].before) = {c}
               /\ forwarders[c].isUsageLimited /\ ~forwarders[c].selected

\* C13 as claimed: at most one entry is selected, whatever calls were made.
C13_AtMostOneSelected == Cardinality(SelectedIn(forwarders)) <= 1

\* C14 as claimed: after a selection exactly one entry is selected, the one
\* whose url was given, limited or not, and no isUsageLimited flag changed.
C14_AdminSelectExactlyOne ==
    \A i \in 1..Len(out) :
        Is(i, "adminSelect") =>
            /\ Cardinality(SelectedIn(forwarders)) = 1
            /\ \A k \in 1..Len(forwarders) :
                   /\ forwarders[k].selected <=> forwarders[k].url = out[i].url
                   /\ forwarders[k].isUsageLimited = out[i].before[k].isUsageLimited

(***************************************************************************)
(* The session (checked under SpecSession, where out holds the call or the  *)
(* feed event that led to the current state).                               *)
(***************************************************************************)
IsFeedDown(i) == Is(i, "disconnect") \/ Is(i, "connect_error")

\* a POST /new-chat that carried a mintID: a switch to a room or to "none"
IsSwitch(i) == Is(i, "newChat") /\ out[i].mintID # ""

SessionEmpty ==
    /\ chatHistory = <<>>
    /\ chatQueue = <<>>
    /\ alreadyExistChats = <<>>

\* C15: when POST /new-chat returns, for a room or for "none", chatHistory,
\* chatQueue and alreadyExistChats are empty and data/forwarders.json is as
\* it was.
C15_SwitchRoomResets ==
    \A i \in 1..Len(out) :
        IsSwitch(i) => SessionEmpty /\ forwarders = out[i].forwarders

\* C15 witness: a switch that found turns in the history, a turn waiting in
\* the queue and an identifier in alreadyExistChats.
C15_SwitchFoundAllThreeFilled ==
    \E i \in 1..Len(out) :
        /\ IsSwitch(i)
        /\ out[i].history > 0
        /\ out[i].queue > 0
        /\ out[i].seen > 0

\* C16 as claimed: at most one feed socket is connected, and when a switch
\* returns every socket created by an earlier switch is closed for good.
C16_AtMostOneLiveFeed ==
    /\ Cardinality({s \in 1..Len(sockets) : sockets[s].connected}) <= 1
    /\ \A i \in 1..Len(out) :
           IsSwitch(i) =>
               \A s \in 1..Len(sockets) :
                   s # currentLiveChatSocket => ~sockets[s].active

\* a handler run that was the whole step: the feed raised the event by
\* itself, no POST /new-chat went on after it
FiredByFeed == \A j \in 1..Len(out) : ~Is(j, "newChat")

\* C17: a run of the 'disconnect' or 'connect_error' handler of the socket
\* that currentLiveChatSocket holds sets currentLiveChatSocket and
\* currentMintID to null; a run for any other socket leaves both as they
\* were.  When the feed raised the event, that is the state it leaves.
C17_OnlyTrackedSocketClears ==
    \A i \in 1..Len(out) :
        IsFeedDown(i) =>
            /\ IF out[i].handle = out[i].socket
               THEN out[i].handleAfter = 0 /\ out[i].mintAfter = Null
               ELSE /\ out[i].handleAfter = out[i].handle
                    /\ out[i].mintAfter = out[i].mintID
            /\ FiredByFeed =>
                   /\ currentLiveChatSocket = out[i].handleAfter
                   /\ currentMintID = out[i].mintAfter

\* C17 witness: an event of a superseded socket arrived while a newer socket
\* was held, and the newer one is still held with its room.
C17_StaleEventIgnored ==
    \E i \in 1..Len(out) :
        /\ IsFeedDown(i)
        /\ out[i].handle # 0
        /\ out[i].socket < out[i].handle
        /\ currentLiveChatSocket = out[i].handle
        /\ currentMintID = sockets[out[i].handle].mintID

\* C18 as claimed: a 'newMessage' of a socket that a later switch has
\* superseded is neither appended to chatHistory nor enqueued.
C18_OldRoomMessageNotAppended ==
    \A i \in 1..Len(out) :
        (Is(i, "newMessage") /\ out[i].socket < Len(sockets)) =>
            /\ chatHistory = out[i].history
            /\ enqCount = out[i].enqCount

\* C19 as claimed: currentMintID changes exactly when the three collections
\* are reset: a feed event that changes it leaves them empty, and a switch
\* that empties one of them changes it.
C19_ResetExactlyOnRoomChange ==
    /\ \A i \in 1..Len(out) :
           (IsFeedDown(i) /\ currentMintID # out[i].mintID) => SessionEmpty
    /\ \A i \in 1..Len(out) :
           (IsSwitch(i) /\ out[i].history + out[i].queue + out[i].seen > 0) =>
               currentMintID # out[i].before

(***************************************************************************)
(* The history window (checked under SpecLoaded, where chatHistory starts   *)
(* with 100 turns).                                                         *)
(***************************************************************************)
\* the last n elements of a sequence, all of them when it has fewer
LastOf(seq, n) ==
    IF Len(seq) <= n THEN seq ELSE SubSeq(seq, Len(seq) - n + 1, Len(seq))

\* C20: chatHistory never holds more than 100 turns, and every append, from
\* the feed, /test-chat or /admin/send-chat, leaves it equal to the last 100
\* turns of what it held followed by the new turn: turns stay in arrival
\* order and only the oldest is evicted, so that since the last clear it is
\* the last min(k, 100) of the k turns appended.
C20_HistoryIsLastHundred ==
    /\ Len(chatHistory) <= HistoryCap
    /\ \A i \in 1..Len(out) :
           Is(i, "append") =>
               chatHistory = LastOf(Append(out[i].before, out[i].entry), HistoryCap)

\* C20 witness: a turn was appended to a history of 100 turns: it is the
\* last of 100 turns now and the oldest one is gone.
C20_OldestEvictedAtHundred ==
    \E i \in 1..Len(out) :
        /\ Is(i, "append")
        /\ Len(out[i].before) = HistoryCap
        /\ Len(chatHistory) = HistoryCap
        /\ chatHistory[HistoryCap] = out[i].entry
        /\ chatHistory[1] = out[i].before[2]
        /\ \A k \in 1..HistoryCap : chatHistory[k] # out[i].before[1]

(***************************************************************************)
(* The filter gate (checked under SpecGate).                               *)
(***************************************************************************)
AiCallsOf(n) == {i \in 1..Len(out) : Is(i, "aiCall") /\ out[i].no = n}

WithinLength(m) == Len(m) >= MinMessageLen /\ Len(m) <= MaxMessageLen

\* C21: a turn whose normalized message has fewer than 2 or more than 200
\* characters is suppressed and no AI call is made for it; a normalized
\* message of 2 or of 200 characters passes the length rule: it is accepted
\* when the other rules (repeat, filename, keyword) let it pass.
C21_LengthRule ==
    /\ \A i \in 1..Len(out) :
           Is(i, "gate") =>
               /\ ~WithinLength(out[i].message) =>
                      ~out[i].accepted /\ AiCallsOf(out[i].no) = {}
               /\ (/\ Len(out[i].message) \in {MinMessageLen, MaxMessageLen}
                   /\ ~out[i].seen
                   /\ ~LooksLikeFilename(out[i].message)
                   /\ ~HasNegativeKeyword(out[i].message)) => out[i].accepted
    /\ \A k \in 1..Len(pipelines) :
           pipelines[k].accepted /\ WithinLength(pipelines[k].cleanUserMessage)

\* C21 witness: a message of 200 characters was accepted and sent to the AI,
\* and the drain that followed its broadcast suppressed a message of 201
\* characters, which had 198 characters before normalization.
C21_BothSidesOfTheUpperLimit ==
    \E i, j \in 1..Len(out) :
        /\ i < j
        /\ Is(i, "broadcast") /\ Len(out[i].userMessage) = MaxMessageLen
        /\ out[i].accepted /\ out[i].ai.status # "none"
        /\ Is(j, "gate") /\ Len(out[j].message) = MaxMessageLen + 1
        /\ out[j].message[MaxMessageLen + 1] = ";"
        /\ ~out[j].accepted

(***************************************************************************)
(* Failover during the pipeline (checked under Spec, where the admin can   *)
(* select a forwarder while an AI call is suspended).                      *)
(***************************************************************************)
\* C22 as claimed: when the AI call of a turn has failed and
\* rotateToNextForwarder has run for it, an entry with the url that the call
\* was sent to is marked isUsageLimited.
C22_FailedUrlIsMarked ==
    \A i \in 1..Len(out) :
        Is(i, "rotate") =>
            \A k \in 1..Len(pipelines) :
                pipelines[k].no = out[i].no =>
                    \E f \in 1..Len(forwarders) :
                        /\ forwarders[f].url = pipelines[k].url
                        /\ forwarders[f].isUsageLimited

\* the entries of a history whose message, once normalized, is m
EntriesWith(history, m) == {h \in 1..Len(history) : Clean(history[h].message) = m}

\* C23 as claimed: a message that the gate suppresses, and that is no repeat
\* of an accepted one, is neither in chatHistory nor in the history handed
\* to a pipeline.
C23_SuppressedNeverInHistory ==
    \A i \in 1..Len(out) :
        (Is(i, "gate") /\ ~out[i].accepted /\ ~out[i].seen) =>
            /\ EntriesWith(chatHistory, out[i].message) = {}
            /\ \A k \in 1..Len(pipelines) :
                   EntriesWith(pipelines[k].history, out[i].message) = {}

\* the identifier of the turn of a gate event
IdOf(e) == e.username \o e.message

SuppressedGates(events) ==
    {i \in 1..Len(events) : events[i].ev = "gate" /\ ~events[i].accepted}

AcceptedGates(events) ==
    {i \in 1..Len(events) : events[i].ev = "gate" /\ events[i].accepted}

\* C24: a handler run in which the gate suppresses a turn makes no AI call,
\* no TTS call and no rotation for that turn and suspends no pipeline for
\* it; it leaves data/forwarders.json as it was; it adds the identifier of
\* the turn to alreadyExistChats only if it also accepted a turn with the
\* same identifier, and when it accepted no turn at all alreadyExistChats is
\* as it was.
C24_SuppressedTurnChangesNothing ==
    [][\A i \in SuppressedGates(out') :
           /\ \A j \in 1..Len(out') :
                  out'[j].ev \in {"aiCall", "ttsCall", "rotate"} => out'[j].no # out'[i].no
           /\ \A k \in 1..Len(pipelines') : pipelines'[k].no # out'[i].no
           /\ forwarders' = forwarders
           /\ Has(alreadyExistChats', IdOf(out'[i])) =>
                  \/ Has(alreadyExistChats, IdOf(out'[i]))
                  \/ \E j \in AcceptedGates(out') : IdOf(out'[j]) = IdOf(out'[i])
           /\ AcceptedGates(out') = {} => alreadyExistChats' = alreadyExistChats]_vars

\* C24 witness: with an identifier in alreadyExistChats and the first
\* forwarder marked by a rotation, a handler run processed one turn, which
\* the gate suppressed though it was no repeat, and nothing else.
C24_SuppressedAfterRotation ==
    /\ \E i \in SuppressedGates(out) : ~out[i].seen
    /\ AcceptedGates(out) = {}
    /\ alreadyExistChats # <<>>
    /\ forwarders[1].isUsageLimited /\ ~forwarders[1].selected
    /\ pipelines = <<>>

(***************************************************************************)
(* Room switches and the worker (checked under Spec).                      *)
(***************************************************************************)
\* the turn was in flight when a room switch emptied the queue behind it: a
\* turn enqueued after it was removed by the switch
InFlightOverSwitch(n) == \E d \in droppedNos : d > n

\* C25 as claimed: a turn that was in flight during a room switch is
\* broadcast when its processChat settles, and no turn that the switch
\* removed from the queue is ever handed to processChat.
C25_InFlightJobIsBroadcast ==
    /\ \A i \in 1..Len(out) :
           (Is(i, "settled") /\ InFlightOverSwitch(out[i].no)) =>
               BroadcastsOf(out[i].no) # {}
    /\ \A k \in 1..Len(startedNos) : startedNos[k] \notin droppedNos

(***************************************************************************)
(* The dedup record (checked under SpecLoaded, where alreadyExistChats      *)
(* starts with 1000 identifiers).                                           *)
(***************************************************************************)
\* the identifiers of the turns that the gate accepted, in order
RECURSIVE AcceptedIds(_)
AcceptedIds(events) ==
    IF events = <<>> THEN <<>>
    ELSE (IF Head(events).ev = "gate" /\ Head(events).accepted
          THEN <<IdOf(Head(events))>> ELSE <<>>) \o AcceptedIds(Tail(events))

\* C26: alreadyExistChats never holds more than 1000 identifiers, and a
\* handler run that accepts turns leaves it, in insertion order, equal to
\* the last 1000 of what it held followed by the identifiers accepted: at
\* the limit the identifier dropped is the one inserted earliest.
C26_SeenIsLastThousand ==
    /\ [](Len(alreadyExistChats) <= SeenCap)
    /\ [][AcceptedGates(out') # {} =>
              alreadyExistChats' =
                  LastOf(alreadyExistChats \o AcceptedIds(out'), SeenCap)]_vars

\* C26 witness: a turn was accepted with 1000 identifiers recorded: its
\* identifier is the last of 1000 now, the one inserted first is gone and
\* the one inserted second is the oldest.
C26_EarliestEvictedAtThousand ==
    /\ Len(alreadyExistChats) = SeenCap
    /\ \E i \in AcceptedGates(out) : alreadyExistChats[SeenCap] = IdOf(out[i])
    /\ alreadyExistChats[1] = LoadedSeen[2]
    /\ ~Has(alreadyExistChats, LoadedSeen[1])

\* C27: the lock is held exactly when a processChat is suspended at its AI
\* or TTS call or the finally of a processChat that has ended is still to
\* run, and a turn waits in the queue only while the lock is held.  So when
\* the event loop is idle (no finally is pending) with no pipeline in flight,
\* isProcessing is false and chatQueue is empty: no turn is stranded behind a
\* free lock and the lock is never held by nobody.
C27_NoStrandedJobNoStuckLock ==
    /\ isProcessing <=> (pipelines # <<>> \/ settled # "no")
    /\ (pipelines = <<>> /\ settled = "no") => (~isProcessing /\ chatQueue = <<>>)
    /\ chatQueue # <<>> => isProcessing

\* C27 witness: the worker is idle with a free lock and an empty queue after
\* the finally of a turn that returned without awaiting found two turns in
\* the queue, put there by handlers of the same tick while the lock was held
\* and no pipeline was suspended, and both returned without awaiting too.
C27_IdleAfterSameTickPackets ==
    /\ settled = "no" /\ pipelines = <<>> /\ ~isProcessing /\ chatQueue = <<>>
    /\ out # <<>> /\ Is(1, "gate")
    /\ \E i, j \in 1..Len(out) :
           /\ i < j
           /\ Is(i, "settled") /\ Is(j, "settled")
           /\ out[j].no = out[i].no + 1
           /\ out[i].no > 1

\* C28 as claimed: the history handed to a pipeline ends with the turn of
\* that pipeline.
C28_SnapshotEndsWithOwnTurn ==
    \A k \in 1..Len(pipelines) :
        /\ pipelines[k].history # <<>>
        /\ Clean(pipelines[k].history[Len(pipelines[k].history)].username)
               = pipelines[k].cleanUsername
        /\ Clean(pipelines[k].history[Len(pipelines[k].history)].message)
               = pipelines[k].cleanUserMessage

====
